---- MODULE Spec2Model ----
(***************************************************************************)
(* Verification model of the Pea package manager core:                     *)
(*   - pea-cache   cas/{hash,index,store}.rs   content-addressable store   *)
(*   - pea-core    types/version.rs            versions and requirements   *)
(*   - pea-resolver semver, graph, sat         selector, graph, resolver   *)
(***************************************************************************)
EXTENDS Integers, Sequences, FiniteSets, TLC

(***************************************************************************)
(* Bounds                                                                  *)
(***************************************************************************)
\* number of distinct byte strings handed to store
NumContents == 3
\* the clock (Utc::now().timestamp()) runs over 0..MaxTime
MaxTime == 1
\* threads calling store concurrently
NumThreads == 2
\* the write counters kept for observation saturate here
WriteCap == 3
\* RetryConfig.max_retries runs over 0..MaxRetries
MaxRetries == 3
\* major, minor and patch of the compared versions run over 0..MaxNum
MaxNum == 1
\* prerelease and build texts of the printed versions have up to MaxText characters
MaxText == 2

(***************************************************************************)
(* Generic helpers                                                         *)
(***************************************************************************)
Range(s) == {s[i] : i \in DOMAIN s}

Min(a, b) == IF a <= b THEN a ELSE b

RECURSIVE SeqsUpTo(_, _)
SeqsUpTo(S, n) ==
    IF n = 0 THEN {<<>>}
    ELSE LET shorter == SeqsUpTo(S, n - 1)
         IN  shorter \cup {Append(s, x) : s \in {t \in shorter : Len(t) = n - 1}, x \in S}

RECURSIVE Pow(_, _)
Pow(b, e) == IF e = 0 THEN 1 ELSE b * Pow(b, e - 1)

\* Option values are sets with at most one element
None == {}
Some(x) == {x}
Unwrap(o) == CHOOSE x \in o : TRUE

(***************************************************************************)
(* types/version.rs: text.  A string is a sequence of one-character        *)
(* strings.                                                                *)
(***************************************************************************)
Digits == <<"0", "1", "2", "3", "4", "5", "6", "7", "8", "9">>
IsDigit(c) == \E i \in 1..10 : Digits[i] = c
DigitVal(c) == (CHOOSE i \in 1..10 : Digits[i] = c) - 1

\* the characters used in texts, in byte order (String::cmp is byte-wise)
CharOrder == <<"*", "+", "-", ".", "0", "1", "2", "3", "4", "5", "6", "7", "8", "9",
               "<", "=", ">", "^", "a", "b", "c", "x", "y", "~">>
CharCode(c) == CHOOSE i \in 1..Len(CharOrder) : CharOrder[i] = c

\* str::cmp: lexicographic, -1 / 0 / 1
RECURSIVE str_cmp(_, _)
str_cmp(a, b) ==
    IF a = <<>> /\ b = <<>> THEN 0
    ELSE IF a = <<>> THEN -1
    ELSE IF b = <<>> THEN 1
    ELSE IF CharCode(Head(a)) < CharCode(Head(b)) THEN -1
    ELSE IF CharCode(Head(a)) > CharCode(Head(b)) THEN 1
    ELSE str_cmp(Tail(a), Tail(b))

\* str::split_once(c): None, or Some(<<before, after>>) at the first c
split_once(s, c) ==
    IF \E i \in 1..Len(s) : s[i] = c
    THEN LET i == CHOOSE j \in 1..Len(s) : s[j] = c /\ \A k \in 1..(j - 1) : s[k] # c
         IN  Some(<<SubSeq(s, 1, i - 1), SubSeq(s, i + 1, Len(s))>>)
    ELSE None

\* str::split(c)
RECURSIVE split(_, _)
split(s, c) ==
    LET so == split_once(s, c)
    IN  IF so = None THEN <<s>>
        ELSE <<Unwrap(so)[1]>> \o split(Unwrap(so)[2], c)

\* str::strip_prefix
starts_with(s, pre) == Len(s) >= Len(pre) /\ SubSeq(s, 1, Len(pre)) = pre
strip(s, pre) == SubSeq(s, Len(pre) + 1, Len(s))

\* u64::from_str: None unless the text is a non-empty run of digits
RECURSIVE digits_value(_)
digits_value(s) ==
    IF s = <<>> THEN 0
    ELSE digits_value(SubSeq(s, 1, Len(s) - 1)) * 10 + DigitVal(s[Len(s)])

parse_u64(s) ==
    IF s # <<>> /\ \A i \in 1..Len(s) : IsDigit(s[i])
    THEN Some(digits_value(s))
    ELSE None

\* u64 Display
RECURSIVE u64_to_string(_)
u64_to_string(n) ==
    IF n < 10 THEN <<Digits[n + 1]>>
    ELSE Append(u64_to_string(n \div 10), Digits[(n % 10) + 1])

(***************************************************************************)
(* types/version.rs: Version                                               *)
(***************************************************************************)
\* Version::new
Version_new(major, minor, patch) ==
    [major |-> major, minor |-> minor, patch |-> patch,
     prerelease |-> None, build |-> None]

\* Version::is_prerelease
is_prerelease(v) == v.prerelease # None

\* cmp of the (major, minor, patch) tuples
triple_cmp(a, b) ==
    IF a.major # b.major THEN (IF a.major < b.major THEN -1 ELSE 1)
    ELSE IF a.minor # b.minor THEN (IF a.minor < b.minor THEN -1 ELSE 1)
    ELSE IF a.patch # b.patch THEN (IF a.patch < b.patch THEN -1 ELSE 1)
    ELSE 0

\* mutant: a prerelease ranks above the release
precedence_cmp_pre_above(a, b) ==
    IF triple_cmp(a, b) # 0 THEN triple_cmp(a, b)
    ELSE IF a.prerelease = None /\ b.prerelease = None THEN 0
    ELSE IF a.prerelease # None /\ b.prerelease = None THEN 1
    ELSE IF a.prerelease = None /\ b.prerelease # None THEN -1
    ELSE str_cmp(Unwrap(a.prerelease), Unwrap(b.prerelease))

\* Version::precedence_cmp (Ord for Version): build is ignored
precedence_cmp(a, b) ==
    IF triple_cmp(a, b) # 0 THEN triple_cmp(a, b)
    ELSE IF a.prerelease = None /\ b.prerelease = None THEN 0
    ELSE IF a.prerelease # None /\ b.prerelease = None THEN -1
    ELSE IF a.prerelease = None /\ b.prerelease # None THEN 1
    ELSE str_cmp(Unwrap(a.prerelease), Unwrap(b.prerelease))

\* mutant: the text is split at '-' before it is split at '+'
Version_from_str_dash_first(s) ==
    LET dash  == split_once(s, "-")
        core_part == IF dash = None THEN s ELSE Unwrap(dash)[1]
        rest == IF dash = None THEN <<>> ELSE Unwrap(dash)[2]
        plus == split_once(rest, "+")
        prerelease == IF dash = None THEN None
                      ELSE IF plus = None THEN Some(rest) ELSE Some(Unwrap(plus)[1])
        build == IF plus = None THEN None ELSE Some(Unwrap(plus)[2])
        parts == split(core_part, ".")
    IN  IF Len(parts) # 3 THEN None
        ELSE IF \E i \in 1..3 : parse_u64(parts[i]) = None THEN None
        ELSE Some([major |-> Unwrap(parse_u64(parts[1])),
                   minor |-> Unwrap(parse_u64(parts[2])),
                   patch |-> Unwrap(parse_u64(parts[3])),
                   prerelease |-> prerelease, build |-> build])

\* Version::from_str: None on InvalidFormat / InvalidNumber
Version_from_str(s) ==
    LET plus  == split_once(s, "+")
        version_part == IF plus = None THEN s ELSE Unwrap(plus)[1]
        build == IF plus = None THEN None ELSE Some(Unwrap(plus)[2])
        dash  == split_once(version_part, "-")
        core_part == IF dash = None THEN version_part ELSE Unwrap(dash)[1]
        prerelease == IF dash = None THEN None ELSE Some(Unwrap(dash)[2])
        parts == split(core_part, ".")
    IN  IF Len(parts) # 3 THEN None
        ELSE IF \E i \in 1..3 : parse_u64(parts[i]) = None THEN None
        ELSE Some([major |-> Unwrap(parse_u64(parts[1])),
                   minor |-> Unwrap(parse_u64(parts[2])),
                   patch |-> Unwrap(parse_u64(parts[3])),
                   prerelease |-> prerelease, build |-> build])

\* Display for Version
Version_to_string(v) ==
    u64_to_string(v.major) \o <<".">> \o u64_to_string(v.minor) \o <<".">>
        \o u64_to_string(v.patch)
        \o (IF v.prerelease # None THEN <<"-">> \o Unwrap(v.prerelease) ELSE <<>>)
        \o (IF v.build # None THEN <<"+">> \o Unwrap(v.build) ELSE <<>>)

(***************************************************************************)
(* types/version.rs: VersionReq, Comparator, PartialVersion                *)
(***************************************************************************)
\* VersionReq::parse: None on error, else Some(req) with a single comparator
VersionReq_parse(input) ==
    IF input = <<"*">>
    THEN Some([comparators |-> <<[op |-> "Wildcard", major |-> 0, minor |-> None,
                                  patch |-> None, prerelease |-> None]>>])
    ELSE LET pre == IF starts_with(input, <<"^">>) THEN <<"Caret", 1>>
                    ELSE IF starts_with(input, <<"~">>) THEN <<"Tilde", 1>>
                    ELSE IF starts_with(input, <<">", "=">>) THEN <<"GreaterEq", 2>>
                    ELSE IF starts_with(input, <<"<", "=">>) THEN <<"LessEq", 2>>
                    ELSE IF starts_with(input, <<">">>) THEN <<"Greater", 1>>
                    ELSE IF starts_with(input, <<"<">>) THEN <<"Less", 1>>
                    ELSE IF starts_with(input, <<"=">>) THEN <<"Exact", 1>>
                    ELSE <<"Exact", 0>>
             version == Version_from_str(SubSeq(input, pre[2] + 1, Len(input)))
         IN  IF version = None THEN None
             ELSE Some([comparators |->
                    <<[op |-> pre[1], major |-> Unwrap(version).major,
                       minor |-> Some(Unwrap(version).minor),
                       patch |-> Some(Unwrap(version).patch),
                       prerelease |-> Unwrap(version).prerelease]>>])

unwrap_or(o, d) == IF o = None THEN d ELSE Unwrap(o)

\* PartialVersion::to_version
to_version(pv) ==
    [major |-> pv.major, minor |-> unwrap_or(pv.minor, 0),
     patch |-> unwrap_or(pv.patch, 0), prerelease |-> pv.prerelease, build |-> None]

\* PartialVersion::matches_exact
matches_exact(pv, version) ==
    /\ version.major = pv.major
    /\ (pv.minor = None \/ version.minor = Unwrap(pv.minor))
    /\ (pv.patch = None \/ version.patch = Unwrap(pv.patch))
    /\ version.prerelease = pv.prerelease

\* PartialVersion::matches_tilde
matches_tilde(pv, version) ==
    IF version.major # pv.major THEN FALSE
    ELSE IF pv.minor # None
         THEN version.minor = Unwrap(pv.minor) /\ version.patch >= unwrap_or(pv.patch, 0)
         ELSE TRUE

\* mutant: the caret also pins the minor version
matches_caret_minor(pv, version) ==
    IF version.major # pv.major THEN FALSE
    ELSE version.minor = unwrap_or(pv.minor, 0)
            /\ precedence_cmp(version, to_version(pv)) >= 0

\* PartialVersion::matches_caret
matches_caret(pv, version) ==
    IF version.major # pv.major THEN FALSE
    ELSE precedence_cmp(version, to_version(pv)) >= 0

\* Comparator::matches
Comparator_matches(comp, version) ==
    CASE comp.op = "Exact"     -> matches_exact(comp, version)
      [] comp.op = "Wildcard"  -> TRUE
      [] comp.op = "Greater"   -> precedence_cmp(version, to_version(comp)) > 0
      [] comp.op = "GreaterEq" -> precedence_cmp(version, to_version(comp)) >= 0
      [] comp.op = "Less"      -> precedence_cmp(version, to_version(comp)) < 0
      [] comp.op = "LessEq"    -> precedence_cmp(version, to_version(comp)) <= 0
      [] comp.op = "Tilde"     -> matches_tilde(comp, version)
      [] comp.op = "Caret"     -> matches_caret(comp, version)

\* VersionReq::matches
matches(req, version) ==
    \A i \in 1..Len(req.comparators) : Comparator_matches(req.comparators[i], version)

(***************************************************************************)
(* semver/mod.rs: VersionSelector                                          *)
(***************************************************************************)
\* BTreeSet::insert into the ascending sequence: an element that compares
\* equal to one already present is not inserted
RECURSIVE btree_insert(_, _)
btree_insert(sorted, v) ==
    IF sorted = <<>> THEN <<v>>
    ELSE LET c == precedence_cmp(v, Head(sorted))
         IN  IF c = 0 THEN sorted
             ELSE IF c < 0 THEN <<v>> \o sorted
             ELSE <<Head(sorted)>> \o btree_insert(Tail(sorted), v)

\* VersionSelector::new: versions.into_iter().collect::<BTreeSet>()
RECURSIVE VersionSelector_new(_)
VersionSelector_new(versions) ==
    IF versions = <<>> THEN <<>>
    ELSE btree_insert(VersionSelector_new(SubSeq(versions, 1, Len(versions) - 1)),
                      versions[Len(versions)])

all_match(constraints, version) ==
    \A i \in 1..Len(constraints) : matches(constraints[i], version)

\* iter().rev().find(pred) over the ascending sequence
rev_find(sorted, Pred(_)) ==
    IF \E i \in 1..Len(sorted) : Pred(sorted[i])
    THEN LET i == CHOOSE j \in 1..Len(sorted) :
                    Pred(sorted[j]) /\ \A k \in (j + 1)..Len(sorted) : ~Pred(sorted[k])
         IN  Some(sorted[i])
    ELSE None

\* VersionSelector::select_best
select_best(available, constraints) ==
    LET P(v) == all_match(constraints, v)
    IN  rev_find(available, P)

\* mutant: the prerelease filter is missing
select_best_stable_unfiltered(available, constraints) ==
    select_best(available, constraints)

\* VersionSelector::select_best_stable
select_best_stable(available, constraints) ==
    LET P(v) == ~is_prerelease(v) /\ all_match(constraints, v)
    IN  rev_find(available, P)

\* VersionSelector::select_preferred
select_preferred(available, constraints, allow_prerelease) ==
    IF allow_prerelease THEN select_best(available, constraints)
    ELSE LET stable == select_best_stable(available, constraints)
         IN  IF stable # None THEN stable ELSE select_best(available, constraints)

(***************************************************************************)
(* graph/mod.rs: DependencyGraph over petgraph's DiGraph.  Node indices    *)
(* are positions in nodes, edges are kept in insertion order.              *)
(***************************************************************************)
\* PackageId::new
PackageId_new(name, version) == [name |-> name, version |-> version]

\* PackageNode::new
PackageNode_new(name, version, resolved_url, integrity) ==
    [id |-> PackageId_new(name, version), name |-> name, version |-> version,
     resolved_url |-> resolved_url, integrity |-> integrity]

\* DependencyEdge::normal
DependencyEdge_normal(version_req) ==
    [version_req |-> version_req, kind |-> "Normal", optional |-> FALSE]

\* DependencyGraph::new
DependencyGraph_new == [nodes |-> <<>>, edges |-> <<>>, node_map |-> <<>>]

\* mutant: a node is added on every call, the map points at the latest one
add_package_always(graph, package) ==
    [graph |-> [nodes |-> Append(graph.nodes, package),
                edges |-> graph.edges,
                node_map |-> [id \in (DOMAIN graph.node_map) \cup {package.id} |->
                                 IF id = package.id THEN Len(graph.nodes) + 1
                                 ELSE graph.node_map[id]]],
     index |-> Len(graph.nodes) + 1]

\* DependencyGraph::add_package
add_package(graph, package) ==
    IF package.id \in DOMAIN graph.node_map
    THEN [graph |-> graph, index |-> graph.node_map[package.id]]
    ELSE LET node_index == Len(graph.nodes) + 1
         IN  [graph |-> [nodes |-> Append(graph.nodes, package),
                         edges |-> graph.edges,
                         node_map |-> [id \in (DOMAIN graph.node_map) \cup {package.id} |->
                                          IF id = package.id THEN node_index
                                          ELSE graph.node_map[id]]],
              index |-> node_index]

\* mutant: an edge to or from a node that is not in the graph is dropped
\* silently
add_dependency_lenient(graph, from_package, to_package, edge) ==
    IF from_package \notin DOMAIN graph.node_map \/ to_package \notin DOMAIN graph.node_map
    THEN [ok |-> TRUE, err |-> "", missing |-> "", graph |-> graph]
    ELSE [ok |-> TRUE, err |-> "", missing |-> "",
          graph |-> [graph EXCEPT !.edges =
                        Append(@, [from |-> graph.node_map[from_package],
                                   to |-> graph.node_map[to_package],
                                   weight |-> edge])]]

\* DependencyGraph::add_dependency; the error text is err followed by the
\* missing package's name
add_dependency(graph, from_package, to_package, edge) ==
    IF from_package \notin DOMAIN graph.node_map
    THEN [ok |-> FALSE, err |-> "Package not found", missing |-> from_package.name,
          graph |-> graph]
    ELSE IF to_package \notin DOMAIN graph.node_map
    THEN [ok |-> FALSE, err |-> "Package not found", missing |-> to_package.name,
          graph |-> graph]
    ELSE [ok |-> TRUE, err |-> "", missing |-> "",
          graph |-> [graph EXCEPT !.edges =
                        Append(@, [from |-> graph.node_map[from_package],
                                   to |-> graph.node_map[to_package],
                                   weight |-> edge])]]

\* DependencyGraph::package_count, dependency_count
package_count(graph) == Len(graph.nodes)
dependency_count(graph) == Len(graph.edges)

\* petgraph neighbors(n): targets of the outgoing edges, latest edge first
RECURSIVE neighbors_from(_, _, _)
neighbors_from(edges, n, i) ==
    IF i = 0 THEN <<>>
    ELSE IF edges[i].from = n THEN <<edges[i].to>> \o neighbors_from(edges, n, i - 1)
    ELSE neighbors_from(edges, n, i - 1)

neighbors(graph, n) == neighbors_from(graph.edges, n, Len(graph.edges))

\* neighbors in the reversed graph: sources of the incoming edges
RECURSIVE neighbors_rev_from(_, _, _)
neighbors_rev_from(edges, n, i) ==
    IF i = 0 THEN <<>>
    ELSE IF edges[i].to = n THEN <<edges[i].from>> \o neighbors_rev_from(edges, n, i - 1)
    ELSE neighbors_rev_from(edges, n, i - 1)

neighbors_rev(graph, n) == neighbors_rev_from(graph.edges, n, Len(graph.edges))

\* push the successors that are not discovered yet
RECURSIVE push_undiscovered(_, _, _)
push_undiscovered(stack, succs, discovered) ==
    IF succs = <<>> THEN stack
    ELSE push_undiscovered(
            IF Head(succs) \in discovered THEN stack ELSE Append(stack, Head(succs)),
            Tail(succs), discovered)

\* petgraph toposort, first pass: the inner while loop for one start node
RECURSIVE topo_visit(_, _, _, _, _)
topo_visit(graph, stack, discovered, finished, finish_stack) ==
    IF stack = <<>>
    THEN [cycle |-> None, discovered |-> discovered, finished |-> finished,
          finish_stack |-> finish_stack]
    ELSE LET nx == stack[Len(stack)]
         IN  IF nx \notin discovered
             THEN IF \E i \in DOMAIN neighbors(graph, nx) : neighbors(graph, nx)[i] = nx
                  THEN [cycle |-> Some(nx), discovered |-> discovered,
                        finished |-> finished, finish_stack |-> finish_stack]
                  ELSE topo_visit(graph,
                          push_undiscovered(stack, neighbors(graph, nx), discovered \cup {nx}),
                          discovered \cup {nx}, finished, finish_stack)
             ELSE topo_visit(graph, SubSeq(stack, 1, Len(stack) - 1), discovered,
                             finished \cup {nx},
                             IF nx \in finished THEN finish_stack
                             ELSE Append(finish_stack, nx))

\* first pass: for i in node_identifiers().rev()
RECURSIVE topo_pass1(_, _, _, _, _)
topo_pass1(graph, i, discovered, finished, finish_stack) ==
    IF i = 0
    THEN [cycle |-> None, finish_stack |-> finish_stack]
    ELSE IF i \in discovered
    THEN topo_pass1(graph, i - 1, discovered, finished, finish_stack)
    ELSE LET r == topo_visit(graph, <<i>>, discovered, finished, finish_stack)
         IN  IF r.cycle # None
             THEN [cycle |-> r.cycle, finish_stack |-> r.finish_stack]
             ELSE topo_pass1(graph, i - 1, r.discovered, r.finished, r.finish_stack)

\* Dfs::next on the reversed graph: pop until an undiscovered node is found
RECURSIVE dfs_next(_, _, _)
dfs_next(graph, stack, discovered) ==
    IF stack = <<>>
    THEN [node |-> None, stack |-> stack, discovered |-> discovered]
    ELSE LET node == stack[Len(stack)]
             rest == SubSeq(stack, 1, Len(stack) - 1)
         IN  IF node \notin discovered
             THEN [node |-> Some(node),
                   stack |-> push_undiscovered(rest, neighbors_rev(graph, node),
                                               discovered \cup {node}),
                   discovered |-> discovered \cup {node}]
             ELSE dfs_next(graph, rest, discovered)

\* mutant: the second pass is left out
topo_pass2_skipped(graph, order, k, discovered) == None

\* second pass: each node of the order must reach, backwards, only itself
RECURSIVE topo_pass2(_, _, _, _)
topo_pass2(graph, order, k, discovered) ==
    IF k > Len(order) THEN None
    ELSE LET first == dfs_next(graph, <<order[k]>>, discovered)
         IN  IF first.node = None
             THEN topo_pass2(graph, order, k + 1, first.discovered)
             ELSE LET second == dfs_next(graph, first.stack, first.discovered)
                  IN  IF second.node # None THEN second.node
                      ELSE topo_pass2(graph, order, k + 1, second.discovered)

Reverse(s) == [i \in 1..Len(s) |-> s[Len(s) + 1 - i]]

\* petgraph::algo::toposort(&graph, None)
toposort(graph) ==
    LET p1 == topo_pass1(graph, Len(graph.nodes), {}, {}, <<>>)
    IN  IF p1.cycle # None THEN [ok |-> FALSE, order |-> <<>>, cycle_node |-> Unwrap(p1.cycle)]
        ELSE LET order == Reverse(p1.finish_stack)
                 c == topo_pass2(graph, order, 1, {})
             IN  IF c # None THEN [ok |-> FALSE, order |-> <<>>, cycle_node |-> Unwrap(c)]
                 ELSE [ok |-> TRUE, order |-> order, cycle_node |-> 0]

\* DependencyGraph::extract_cycle_path: follow the first outgoing edge of
\* each node until a node repeats
RECURSIVE extract_walk(_, _, _, _)
extract_walk(graph, current, visited, path) ==
    IF current \in visited
    THEN LET hits == {i \in 1..Len(path) : graph.node_map[path[i]] = current}
             cycle_start == IF hits = {} THEN 1
                            ELSE CHOOSE i \in hits : \A j \in hits : i <= j
         IN  Append(SubSeq(path, cycle_start, Len(path)), graph.nodes[current].id)
    ELSE LET path2 == Append(path, graph.nodes[current].id)
             out == neighbors(graph, current)
         IN  IF out # <<>>
             THEN extract_walk(graph, Head(out), visited \cup {current}, path2)
             ELSE path2

extract_cycle_path(graph, start_node) == extract_walk(graph, start_node, {}, <<>>)

\* DependencyGraph::detect_cycles
detect_cycles(graph) ==
    LET t == toposort(graph)
    IN  IF t.ok THEN [ok |-> TRUE, cycle |-> <<>>]
        ELSE [ok |-> FALSE, cycle |-> extract_cycle_path(graph, t.cycle_node)]

\* DependencyGraph::format_cycle: the names joined by " -> "
format_cycle(cycle) ==
    IF cycle = <<>> THEN <<"No cycle">>
    ELSE LET names == [i \in 1..Len(cycle) |-> cycle[i].name]
         IN  IF Len(names) > 1 THEN Append(names, names[1]) ELSE names

\* DependencyGraph::validate_no_cycles
validate_no_cycles(graph) ==
    LET d == detect_cycles(graph)
    IN  IF d.ok THEN [ok |-> TRUE, msg |-> <<>>]
        ELSE [ok |-> FALSE, msg |-> format_cycle(d.cycle)]

\* mutant: the order is returned dependencies first
topological_sort_reversed(graph) ==
    LET t == toposort(graph)
    IN  IF t.ok THEN [ok |-> TRUE,
                      sorted |-> Reverse([i \in 1..Len(t.order) |-> graph.nodes[t.order[i]].id]),
                      msg |-> <<>>]
        ELSE [ok |-> FALSE, sorted |-> <<>>,
              msg |-> format_cycle(extract_cycle_path(graph, t.cycle_node))]

\* DependencyGraph::topological_sort
topological_sort(graph) ==
    LET t == toposort(graph)
    IN  IF t.ok THEN [ok |-> TRUE, sorted |-> [i \in 1..Len(t.order) |-> graph.nodes[t.order[i]].id],
                      msg |-> <<>>]
        ELSE [ok |-> FALSE, sorted |-> <<>>,
              msg |-> format_cycle(extract_cycle_path(graph, t.cycle_node))]

(***************************************************************************)
(* Registry metadata (pea-registry api/mod.rs) as the resolver sees it.    *)
(* A map is a sequence of entries in its iteration order.                  *)
(***************************************************************************)
Names == {"a", "b", "c"}

Star     == <<"*">>
BadText  == <<"b", "a", "d">>
Pre(p, v) == [v EXCEPT !.prerelease = Some(p)]
Build(b, v) == [v EXCEPT !.build = Some(b)]
ReqText(prefix, v) == prefix \o Version_to_string(v)

\* the versions each package publishes
Published(name) ==
    CASE name = "a" -> <<Version_new(1, 0, 0), Version_new(1, 2, 3), Version_new(2, 0, 0)>>
      [] name = "b" -> <<Version_new(2, 1, 0), Version_new(2, 1, 5), Version_new(2, 2, 0)>>
      [] name = "c" -> <<Pre(<<"a">>, Version_new(1, 0, 0)), Pre(<<"b">>, Version_new(1, 0, 0))>>

Dep(name, text) == [name |-> name, req |-> text]

\* sample registries: the dependency and peer tables of each package (the
\* same for all its versions) and the packages the registry knows
SampleRegistries == <<
    \* transitive chain, c only has prereleases
    [deps  |-> [n \in Names |-> CASE n = "a" -> Some(<<Dep("b", ReqText(<<"~">>, Version_new(2, 1, 0)))>>)
                                  [] n = "b" -> Some(<<Dep("c", Star)>>)
                                  [] n = "c" -> None],
     peers |-> [n \in Names |-> None], known |-> Names],
    \* a -> b -> c -> a with wildcard requirements
    [deps  |-> [n \in Names |-> CASE n = "a" -> Some(<<Dep("b", Star)>>)
                                  [] n = "b" -> Some(<<Dep("c", Star)>>)
                                  [] n = "c" -> Some(<<Dep("a", Star)>>)],
     peers |-> [n \in Names |-> None], known |-> Names],
    \* a depends on itself
    [deps  |-> [n \in Names |-> CASE n = "a" -> Some(<<Dep("a", ReqText(<<"^">>, Version_new(1, 0, 0)))>>)
                                  [] n = "b" -> Some(<<>>)
                                  [] n = "c" -> None],
     peers |-> [n \in Names |-> None], known |-> Names],
    \* c is reached through a and through b
    [deps  |-> [n \in Names |-> CASE n = "a" -> Some(<<Dep("b", Star), Dep("c", Star)>>)
                                  [] n = "b" -> Some(<<Dep("c", Star)>>)
                                  [] n = "c" -> None],
     peers |-> [n \in Names |-> None], known |-> Names],
    \* b is a dependency and a peer of a, c is named as a peer only
    [deps  |-> [n \in Names |-> CASE n = "a" -> Some(<<Dep("b", ReqText(<<"^">>, Version_new(2, 1, 0)))>>)
                                  [] n = "b" -> Some(<<>>)
                                  [] n = "c" -> None],
     peers |-> [n \in Names |-> CASE n = "a" -> Some(<<Dep("b", Star)>>)
                                  [] n = "b" -> Some(<<Dep("c", ReqText(<<"^">>, Version_new(9, 0, 0)))>>)
                                  [] n = "c" -> None],
     known |-> Names],
    \* a requirement two levels down does not parse
    [deps  |-> [n \in Names |-> CASE n = "a" -> Some(<<Dep("b", Star)>>)
                                  [] n = "b" -> Some(<<Dep("c", BadText)>>)
                                  [] n = "c" -> None],
     peers |-> [n \in Names |-> None], known |-> Names],
    \* a requirement nothing satisfies, then one that does not parse
    [deps  |-> [n \in Names |-> CASE n = "a" -> Some(<<Dep("b", ReqText(<<"^">>, Version_new(9, 0, 0))),
                                                     Dep("c", BadText)>>)
                                  [] n = "b" -> Some(<<Dep("c", BadText)>>)
                                  [] n = "c" -> None],
     peers |-> [n \in Names |-> None], known |-> Names],
    \* c is not published; a peer requirement of b does not parse
    [deps  |-> [n \in Names |-> CASE n = "a" -> Some(<<Dep("c", Star)>>)
                                  [] n = "b" -> Some(<<>>)
                                  [] n = "c" -> None],
     peers |-> [n \in Names |-> CASE n = "b" -> Some(<<Dep("a", BadText)>>)
                                  [] OTHER -> None],
     known |-> {"a", "b"}]
>>

Tarball(name, key) == [scheme |-> "https://", rest |-> <<name>> \o key]

\* VersionMetadata of one published version
VersionMetadata(reg, name, v) ==
    [version |-> Version_to_string(v),
     dependencies |-> reg.deps[name],
     peer_dependencies |-> reg.peers[name],
     dist |-> [tarball |-> Tarball(name, Version_to_string(v)),
               shasum |-> "sha1",
               integrity |-> IF name = "b" THEN None ELSE Some("sha512")]]

\* RegistryClient::fetch_metadata: None when the registry has no such package,
\* else the versions map, keyed by version text
fetch_metadata(reg, name) ==
    IF name \notin reg.known THEN None
    ELSE Some([name |-> name,
               versions |-> [i \in 1..Len(Published(name)) |->
                                [key |-> Version_to_string(Published(name)[i]),
                                 value |-> VersionMetadata(reg, name, Published(name)[i])]]])

\* HashMap::get on a map kept as a sequence of entries
map_get(m, key) ==
    IF \E i \in 1..Len(m) : m[i].key = key
    THEN Some((m[CHOOSE i \in 1..Len(m) : m[i].key = key]).value)
    ELSE None

\* keys().filter_map(|v| Version::from_str(v).ok()).collect()
RECURSIVE parsed_keys(_)
parsed_keys(m) ==
    IF m = <<>> THEN <<>>
    ELSE LET v == Version_from_str(Head(m).key)
         IN  (IF v = None THEN <<>> ELSE <<Unwrap(v)>>) \o parsed_keys(Tail(m))

(***************************************************************************)
(* sat/mod.rs: Resolver                                                    *)
(***************************************************************************)
\* ConflictError; required holds a requirement text, a parsed requirement
\* or a fixed word, conflict a message and the texts it lists
ConflictError(package, required, conflicting, msg, detail) ==
    [package |-> package, required |-> required, conflicting |-> conflicting,
     conflict |-> [msg |-> msg, detail |-> detail]]

ReqAsText(text) == [text |-> text, req |-> None]
ReqParsed(req)  == [text |-> <<>>, req |-> Some(req)]
Word(w)         == [text |-> <<w>>, req |-> None]

NoError == ConflictError("", Word(""), "", "", <<>>)

FileUrl(path) == [scheme |-> "file://", rest |-> path]
\* resolved_url.starts_with("file://")
is_file_url(url) == url.scheme = "file://"

NoNode == PackageNode_new("", Version_new(0, 0, 0), FileUrl(<<>>), "")

map_insert(m, key, value) ==
    [k \in (DOMAIN m) \cup {key} |-> IF k = key THEN value ELSE m[k]]

\* Result<PackageNode, ConflictError> of resolve_package_with_workspace,
\* with the memo and the set of fetched names as the call leaves them
PackageOk(package_node, memo, fetched) ==
    [ok |-> TRUE, node |-> package_node, err |-> NoError, memo |-> memo, fetched |-> fetched]
PackageErr(err, memo, fetched) ==
    [ok |-> FALSE, node |-> NoNode, err |-> err, memo |-> memo, fetched |-> fetched]

\* self.resolved_packages.insert(package_key, package_node.clone()); Ok(package_node)
package_cached(memo, fetched, name, version_req, package_node) ==
    PackageOk(package_node, map_insert(memo, <<name, version_req>>, package_node), fetched)

\* "Get version metadata" and "Create package node"
package_with_metadata(memo, fetched, name, version_req, selected_version, version_metadata) ==
    IF version_metadata = None
    THEN PackageErr(ConflictError(name, ReqParsed(version_req), "metadata",
                                  "version metadata missing", <<>>), memo, fetched)
    ELSE package_cached(memo, fetched, name, version_req,
            PackageNode_new(name, selected_version, Unwrap(version_metadata).dist.tarball,
                            unwrap_or(Unwrap(version_metadata).dist.integrity,
                                      Unwrap(version_metadata).dist.shasum)))

\* selector.select_preferred(&[version_req.clone()], false).ok_or_else(...)
package_selected(memo, fetched, name, version_req, versions, available_versions, selected_version) ==
    IF selected_version = None
    THEN PackageErr(ConflictError(name, ReqParsed(version_req), "available versions",
                                  "no matching version found",
                                  [i \in 1..Len(available_versions) |->
                                        Version_to_string(available_versions[i])]),
                    memo, fetched)
    ELSE package_with_metadata(memo, fetched, name, version_req, Unwrap(selected_version),
            map_get(versions, Version_to_string(Unwrap(selected_version))))

\* "Find best matching version using enhanced version selection"
package_from_versions(memo, fetched, name, version_req, versions, available_versions) ==
    package_selected(memo, fetched, name, version_req, versions, available_versions,
        select_preferred(VersionSelector_new(available_versions), <<version_req>>, FALSE))

\* "Fetch metadata from registry"
package_from_metadata(memo, fetched, name, version_req, metadata) ==
    IF metadata = None
    THEN PackageErr(ConflictError(name, ReqParsed(version_req), "registry",
                                  "package not found", <<>>), memo, fetched)
    ELSE package_from_versions(memo, fetched, name, version_req, Unwrap(metadata).versions,
                               parsed_keys(Unwrap(metadata).versions))

\* Resolver::resolve_package_with_workspace.  The memo key is the pair of
\* the name and the requirement; fetched collects the names handed to
\* fetch_metadata.
resolve_package_with_workspace(reg, memo, fetched, name, version_req, workspace_members) ==
    IF <<name, version_req>> \in DOMAIN memo
    THEN PackageOk(memo[<<name, version_req>>], memo, fetched)
    ELSE IF name \in DOMAIN workspace_members
    THEN package_cached(memo, fetched, name, version_req,
            PackageNode_new(name, Version_new(0, 0, 0), FileUrl(workspace_members[name]),
                            "workspace"))
    ELSE package_from_metadata(memo, fetched \cup {name}, name, version_req,
                               fetch_metadata(reg, name))

\* recursion depth at which the call stack is exhausted
MaxDepth == 4

\* mutant: the peer table is walked like the dependency table
dependencies_with_peers(version_metadata) ==
    IF version_metadata.dependencies = None THEN None
    ELSE Some(Unwrap(version_metadata.dependencies)
              \o unwrap_or(version_metadata.peer_dependencies, <<>>))

\* the table the dependency loop walks: version_metadata.dependencies
normal_dependencies(version_metadata) == version_metadata.dependencies

RECURSIVE resolve_deps(_, _, _, _, _)
RECURSIVE dep_parsed(_, _, _, _, _, _)
RECURSIVE dep_resolved(_, _, _, _, _, _, _)

\* resolve_recursive_with_features, first loop: parse and resolve every
\* dependency.  acc holds dep_packages and dep_edges, the memo and the
\* fetched names, and the error that ended the loop.
resolve_deps(reg, acc, package, deps, workspace_members) ==
    IF deps = <<>> THEN acc
    ELSE dep_parsed(reg, acc, package, deps, workspace_members,
                    VersionReq_parse(Head(deps).req))

\* VersionReq::parse(dep_version_req).map_err(...)?
dep_parsed(reg, acc, package, deps, workspace_members, version_req) ==
    IF version_req = None
    THEN [acc EXCEPT !.ok = FALSE,
                     !.err = ConflictError(package.name, ReqAsText(Head(deps).req),
                                Head(deps).name, "invalid version requirement", <<>>)]
    ELSE dep_resolved(reg, acc, package, deps, workspace_members, Unwrap(version_req),
            resolve_package_with_workspace(reg, acc.memo, acc.fetched, Head(deps).name,
                                           Unwrap(version_req), workspace_members))

\* self.resolve_package_with_workspace(...).await?; the two pushes
dep_resolved(reg, acc, package, deps, workspace_members, version_req, r) ==
    IF ~r.ok
    THEN [acc EXCEPT !.ok = FALSE, !.err = r.err, !.memo = r.memo, !.fetched = r.fetched]
    ELSE resolve_deps(reg,
            [acc EXCEPT !.memo = r.memo, !.fetched = r.fetched,
                        !.dep_packages = Append(@, r.node),
                        !.dep_edges = Append(@, [dep_name |-> Head(deps).name,
                                                 dep_version_req |-> Head(deps).req,
                                                 edge |-> DependencyEdge_normal(version_req)])],
            package, Tail(deps), workspace_members)

peer_parses(peer) == VersionReq_parse(peer.req) # None

\* second loop: every peer requirement is parsed, nothing else
first_bad_peer(package, peer_deps) ==
    IF \A i \in 1..Len(peer_deps) : peer_parses(peer_deps[i]) THEN None
    ELSE LET i == CHOOSE j \in 1..Len(peer_deps) :
                    \A k \in 1..j : peer_parses(peer_deps[k]) <=> k # j
         IN  Some(ConflictError(package.name, ReqAsText(peer_deps[i].req), peer_deps[i].name,
                                "invalid peer dependency version requirement", <<>>))

RECURSIVE add_edges(_, _, _, _, _)
RECURSIVE edge_added(_, _, _, _, _, _)

\* third loop: graph.add_dependency for every collected edge
add_edges(graph, package, dep_packages, dep_edges, i) ==
    IF i > Len(dep_edges) THEN [ok |-> TRUE, err |-> NoError, graph |-> graph]
    ELSE edge_added(graph, package, dep_packages, dep_edges, i,
            add_dependency(graph, package.id, dep_packages[i].id, dep_edges[i].edge))

\* graph.add_dependency(...).map_err(...)?
edge_added(graph, package, dep_packages, dep_edges, i, r) ==
    IF ~r.ok
    THEN [ok |-> FALSE,
          err |-> ConflictError(package.name, ReqAsText(dep_edges[i].dep_version_req),
                                dep_edges[i].dep_name, r.err, <<<<r.missing>>>>),
          graph |-> graph]
    ELSE add_edges(r.graph, package, dep_packages, dep_edges, i + 1)

\* the ? on an Err: the resolution ends with this error
Failed(st, err) == [st EXCEPT !.status = "err", !.err = err]

RECURSIVE resolve_recursive_with_features(_, _, _, _, _)
RECURSIVE expand_package(_, _, _, _, _)
RECURSIVE expand_fetched(_, _, _, _, _, _)
RECURSIVE expand_version(_, _, _, _, _, _)
RECURSIVE expand_deps(_, _, _, _, _, _, _)
RECURSIVE expand_resolved(_, _, _, _, _, _, _)
RECURSIVE expand_peers(_, _, _, _, _, _, _)
RECURSIVE expand_edges(_, _, _, _, _, _, _)
RECURSIVE recurse_deps(_, _, _, _, _, _)
RECURSIVE recurse_next(_, _, _, _, _, _)

\* Resolver::resolve_recursive_with_features.  st carries the graph, the memo
\* and what was fetched and expanded; its status is "ok", "err", or
\* "overflow" when the recursion has exhausted the stack.
resolve_recursive_with_features(reg, st, package, workspace_members, depth) ==
    IF depth > MaxDepth THEN [st EXCEPT !.status = "overflow"]
    ELSE expand_package(reg, [st EXCEPT !.graph = add_package(@, package).graph],
                        package, workspace_members, depth)

\* if package.resolved_url.starts_with("file://") { return Ok(()) }
expand_package(reg, st, package, workspace_members, depth) ==
    IF is_file_url(package.resolved_url) THEN st
    ELSE expand_fetched(reg, [st EXCEPT !.fetched = @ \cup {package.name}], package,
                        workspace_members, depth, fetch_metadata(reg, package.name))

\* self.registry_client.fetch_metadata(&package.name).await.map_err(...)?
expand_fetched(reg, st, package, workspace_members, depth, metadata) ==
    IF metadata = None
    THEN Failed(st, ConflictError(package.name, Word("dependencies"), "registry",
                                  "failed to fetch dependencies", <<>>))
    ELSE expand_version(reg, st, package, workspace_members, depth,
            map_get(Unwrap(metadata).versions, Version_to_string(package.version)))

\* metadata.versions.get(&package.version.to_string()).ok_or_else(...)?
expand_version(reg, st, package, workspace_members, depth, version_metadata) ==
    IF version_metadata = None
    THEN Failed(st, ConflictError(package.name, Word("dependencies"), "metadata",
                                  "version metadata missing", <<>>))
    ELSE expand_deps(reg, [st EXCEPT !.expanded = @ \cup {package.id}], package,
                     workspace_members, depth, Unwrap(version_metadata),
                     normal_dependencies(Unwrap(version_metadata)))

\* if let Some(deps) = &version_metadata.dependencies { first loop
expand_deps(reg, st, package, workspace_members, depth, version_metadata, deps) ==
    IF deps = None THEN st
    ELSE expand_resolved(reg, st, package, workspace_members, depth, version_metadata,
            resolve_deps(reg,
                [ok |-> TRUE, err |-> NoError, memo |-> st.memo, fetched |-> st.fetched,
                 dep_packages |-> <<>>, dep_edges |-> <<>>],
                package, Unwrap(deps), workspace_members))

\* second loop
expand_resolved(reg, st, package, workspace_members, depth, version_metadata, d) ==
    IF ~d.ok
    THEN Failed([st EXCEPT !.memo = d.memo, !.fetched = d.fetched], d.err)
    ELSE expand_peers(reg, [st EXCEPT !.memo = d.memo, !.fetched = d.fetched], package,
                      workspace_members, depth, d,
                      first_bad_peer(package,
                                     unwrap_or(version_metadata.peer_dependencies, <<>>)))

\* third loop
expand_peers(reg, st, package, workspace_members, depth, d, bad) ==
    IF bad # None THEN Failed(st, Unwrap(bad))
    ELSE expand_edges(reg, st, package, workspace_members, depth, d,
                      add_edges(st.graph, package, d.dep_packages, d.dep_edges, 1))

\* "Recursively resolve all dependencies"
expand_edges(reg, st, package, workspace_members, depth, d, e) ==
    IF ~e.ok THEN Failed(st, e.err)
    ELSE recurse_deps(reg, [st EXCEPT !.graph = e.graph], d.dep_packages,
                      workspace_members, depth, 1)

\* for dep_package in dep_packages { self.resolve_recursive_with_features(..).await? }
recurse_deps(reg, st, dep_packages, workspace_members, depth, i) ==
    IF i > Len(dep_packages) THEN st
    ELSE recurse_next(reg,
            resolve_recursive_with_features(reg, st, dep_packages[i], workspace_members,
                                            depth + 1),
            dep_packages, workspace_members, depth, i)

recurse_next(reg, r, dep_packages, workspace_members, depth, i) ==
    IF r.status # "ok" THEN r
    ELSE recurse_deps(reg, r, dep_packages, workspace_members, depth, i + 1)

RECURSIVE process_roots(_, _, _, _)
RECURSIVE root_parsed(_, _, _, _, _)
RECURSIVE root_resolved(_, _, _, _, _)
RECURSIVE root_expanded(_, _, _, _)

\* Resolver::resolve_with_features, the loop over root_dependencies
process_roots(reg, st, root_dependencies, workspace_members) ==
    IF root_dependencies = <<>> THEN st
    ELSE root_parsed(reg, st, root_dependencies, workspace_members,
                     VersionReq_parse(Head(root_dependencies).req))

\* VersionReq::parse(&version_req_str).map_err(...)?
root_parsed(reg, st, root_dependencies, workspace_members, version_req) ==
    IF version_req = None
    THEN Failed(st, ConflictError(Head(root_dependencies).name,
                                  ReqAsText(Head(root_dependencies).req), "root",
                                  "invalid version requirement", <<>>))
    ELSE root_resolved(reg, st, root_dependencies, workspace_members,
            resolve_package_with_workspace(reg, st.memo, st.fetched,
                Head(root_dependencies).name, Unwrap(version_req), workspace_members))

\* resolve_package_with_workspace(...).await?; roots.push; resolve_recursive
root_resolved(reg, st, root_dependencies, workspace_members, p) ==
    IF ~p.ok THEN Failed([st EXCEPT !.memo = p.memo, !.fetched = p.fetched], p.err)
    ELSE root_expanded(reg,
            resolve_recursive_with_features(reg,
                [st EXCEPT !.memo = p.memo, !.fetched = p.fetched,
                           !.roots = Append(@, p.node.id)],
                p.node, workspace_members, 1),
            root_dependencies, workspace_members)

root_expanded(reg, r, root_dependencies, workspace_members) ==
    IF r.status # "ok" THEN r
    ELSE process_roots(reg, r, Tail(root_dependencies), workspace_members)

\* what the caller of resolve gets, and what the call left in the Resolver
Outcome(st, status, err, result) ==
    [status |-> status, err |-> err, result |-> result,
     memo |-> st.memo, fetched |-> st.fetched, expanded |-> st.expanded]

\* graph.validate_no_cycles().map_err(...)?; Ok(ResolutionResult { .. })
validated(st, v) ==
    IF ~v.ok
    THEN Outcome(st, "err",
                 ConflictError("dependency graph", Word("acyclic"), "circular",
                               "Circular dependency detected",
                               [i \in 1..Len(v.msg) |-> <<v.msg[i]>>]),
                 None)
    ELSE Outcome(st, "ok", NoError,
                 Some([graph |-> st.graph, roots |-> st.roots,
                       package_count |-> package_count(st.graph)]))

\* the root loop has ended: with an error, without returning, or normally
roots_processed(st) ==
    IF st.status = "ok" THEN validated(st, validate_no_cycles(st.graph))
    ELSE Outcome(st, st.status, st.err, None)

\* Resolver::resolve_with_features: Ok(ResolutionResult) carries the graph,
\* an error carries none
resolve_with_features(reg, memo, root_dependencies, workspace_members) ==
    roots_processed(
        process_roots(reg,
            [status |-> "ok", err |-> NoError, graph |-> DependencyGraph_new,
             roots |-> <<>>, memo |-> memo, fetched |-> {}, expanded |-> {}],
            root_dependencies, workspace_members))

\* resolved_packages: name -> node, collected from graph.packages(); a later
\* node replaces an earlier one of the same name
resolved_packages(graph) ==
    [name \in {graph.nodes[i].name : i \in 1..Len(graph.nodes)} |->
        graph.nodes[CHOOSE i \in 1..Len(graph.nodes) :
                        /\ graph.nodes[i].name = name
                        /\ \A j \in 1..Len(graph.nodes) : graph.nodes[j].name = name => j <= i]]

\* the two warning texts, as the values their format! arguments carry
PeerMismatch(package, peer, found) ==
    [kind |-> "Peer dependency mismatch", package |-> package.name,
     peer_name |-> peer.name, peer_version_req |-> peer.req, found |-> Some(found)]
PeerUnmet(package, peer) ==
    [kind |-> "Unmet peer dependency", package |-> package.name,
     peer_name |-> peer.name, peer_version_req |-> peer.req, found |-> None]

\* the body of "for (peer_name, peer_version_req) in peer_deps": the warnings
\* one peer adds
peer_checked(resolved, package, peer, version_req) ==
    IF version_req = None THEN <<>>
    ELSE IF peer.name \in DOMAIN resolved
    THEN IF ~matches(Unwrap(version_req), resolved[peer.name].version)
         THEN <<PeerMismatch(package, peer, resolved[peer.name].version)>>
         ELSE <<>>
    ELSE <<PeerUnmet(package, peer)>>

RECURSIVE peer_warnings(_, _, _)
peer_warnings(resolved, package, peer_deps) ==
    IF peer_deps = <<>> THEN <<>>
    ELSE peer_checked(resolved, package, Head(peer_deps), VersionReq_parse(Head(peer_deps).req))
            \o peer_warnings(resolved, package, Tail(peer_deps))

RECURSIVE validate_packages(_, _, _, _, _)
RECURSIVE validate_fetched(_, _, _, _, _, _)
RECURSIVE validate_version(_, _, _, _, _, _)

\* Resolver::validate_peer_dependencies, the loop over graph.packages()
validate_packages(reg, graph, resolved, i, warnings) ==
    IF i > Len(graph.nodes) THEN [ok |-> TRUE, warnings |-> warnings, err |-> NoError]
    ELSE IF is_file_url(graph.nodes[i].resolved_url)
    THEN validate_packages(reg, graph, resolved, i + 1, warnings)
    ELSE validate_fetched(reg, graph, resolved, i, warnings,
                          fetch_metadata(reg, graph.nodes[i].name))

\* self.registry_client.fetch_metadata(&package.name).await.map_err(...)?
validate_fetched(reg, graph, resolved, i, warnings, metadata) ==
    IF metadata = None
    THEN [ok |-> FALSE, warnings |-> <<>>,
          err |-> ConflictError(graph.nodes[i].name, Word("peer dependency validation"),
                     "registry", "failed to fetch metadata for peer dependency validation",
                     <<>>)]
    ELSE validate_version(reg, graph, resolved, i, warnings,
            map_get(Unwrap(metadata).versions, Version_to_string(graph.nodes[i].version)))

\* metadata.versions.get(&package.version.to_string()).ok_or_else(...)?
validate_version(reg, graph, resolved, i, warnings, version_metadata) ==
    IF version_metadata = None
    THEN [ok |-> FALSE, warnings |-> <<>>,
          err |-> ConflictError(graph.nodes[i].name, Word("peer dependency validation"),
                     "metadata", "version metadata missing for peer dependency validation",
                     <<>>)]
    ELSE validate_packages(reg, graph, resolved, i + 1,
            warnings \o peer_warnings(resolved, graph.nodes[i],
                            unwrap_or(Unwrap(version_metadata).peer_dependencies, <<>>)))

\* Resolver::validate_peer_dependencies
validate_peer_dependencies(reg, graph) ==
    validate_packages(reg, graph, resolved_packages(graph), 1, <<>>)

(***************************************************************************)
(* cas/hash.rs                                                             *)
(***************************************************************************)
\* the byte strings the callers use; the first NumContents are stored, the
\* next one is only ever asked for
SampleContents == << <<>>, <<104>>, <<105>>, <<104, 105>>, <<105, 104>>, <<0>>, <<0, 0>> >>
Contents == {SampleContents[i] : i \in 1..NumContents}

\* a u8 has ByteSpan values
ByteSpan == 256

\* Blake3 is modelled as a collision-free digest of the byte string: the
\* rank of the string in the length-then-lexicographic enumeration.
RECURSIVE compute_hash(_)
compute_hash(content) ==
    IF content = <<>> THEN 0
    ELSE compute_hash(SubSeq(content, 1, Len(content) - 1)) * ByteSpan
            + content[Len(content)] + 1

Hashes == {compute_hash(SampleContents[i]) : i \in 1..(NumContents + 1)}

\* digits of the rendered digest (the digest is narrowed to 4 bytes)
HexLen == 8
HexBase == 16

\* ContentHash::to_hex: fixed-width digits, most significant first
to_hex(hash) == [i \in 1..HexLen |-> (hash \div Pow(HexBase, HexLen - i)) % HexBase]

(***************************************************************************)
(* cas/index.rs                                                            *)
(***************************************************************************)
\* CacheEntry::new
CacheEntry_new(hash, size, t) ==
    [hash |-> hash, size |-> size, stored_at |-> t, last_accessed |-> t]

\* mutant: touching also restamps the time of storing
touch_restamps(entry, t) == [entry EXCEPT !.last_accessed = t, !.stored_at = t]

\* CacheEntry::touch
touch(entry, t) == [entry EXCEPT !.last_accessed = t]

\* CasIndex::insert (DashMap insert: add or replace)
CasIndex_insert(idx, key, entry) ==
    [k \in (DOMAIN idx) \cup {key} |-> IF k = key THEN entry ELSE idx[k]]

\* CasIndex::get: clone the entry, touch it, write it back, return it
CasIndex_get(idx, key, t) ==
    IF key \in DOMAIN idx
    THEN LET entry == touch(idx[key], t)
         IN  [found |-> Some(entry), idx |-> CasIndex_insert(idx, key, entry)]
    ELSE [found |-> None, idx |-> idx]

\* CasIndex::remove
CasIndex_remove(idx, key) == [k \in (DOMAIN idx) \ {key} |-> idx[k]]

\* CasIndex::save: the (key, entry) pairs written to index.json
CasIndex_save(idx) == {<<k, idx[k]>> : k \in DOMAIN idx}

\* mutant: the file is not read
CasIndex_load_fresh(pairs) == <<>>

\* CasIndex::load_or_create: every pair of the file is inserted
CasIndex_load(pairs) ==
    [k \in {p[1] : p \in pairs} |-> (CHOOSE p \in pairs : p[1] = k)[2]]

(***************************************************************************)
(* cas/store.rs: paths                                                     *)
(***************************************************************************)
\* mutant: the shard directories alone name the blob
hash_to_path_shard_only(hash) ==
    LET hex == to_hex(hash)
    IN  <<SubSeq(hex, 1, 2), SubSeq(hex, 3, 4), <<>>>>

\* CasStore::hash_to_path: root/ab/cd/abcd...
hash_to_path(hash) ==
    LET hex == to_hex(hash)
    IN  <<SubSeq(hex, 1, 2), SubSeq(hex, 3, 4), hex>>

(***************************************************************************)
(* State                                                                   *)
(***************************************************************************)
VARIABLES
    files,       \* blob files of the store directory: path -> bytes
    index,       \* CasIndex.entries: key -> CacheEntry
    indexFile,   \* index.json: None, or Some(set of (key, entry) pairs)
    now,         \* Utc::now().timestamp()
    ret,         \* what the last CasStore call returned, and what it saw
    storedLog,   \* the (content, hash) pairs store has returned so far
    writeCount,  \* how often each blob path has been written
    pc,          \* concurrent store: each thread's position in store
    tcontent,    \* concurrent store: each thread's argument
    thash,       \* concurrent store: each thread's computed / returned hash
    wrote,       \* concurrent store: whether the thread wrote the blob file
    registry,    \* what the registry publishes
    memo,        \* Resolver.resolved_packages: (name, requirement) -> PackageNode
    res,         \* the last resolve call: its arguments and what it returned
    alive,       \* FALSE once a resolve call has exhausted the stack
    sel,         \* a VersionSelector, the arguments of a selection, its result
    dg,          \* a DependencyGraph
    gret,        \* the last DependencyGraph call: its arguments and what it returned
    added,       \* the ids add_package has been called with
    ithr,        \* concurrent index calls: each thread's position and its copy of the entry
    ilog,        \* per key: the last insert or remove made by a caller, and the touches since
    cache,       \* MetadataCache.cache: package name -> CacheEntry (metadata, stored_at, ttl)
    mthr,        \* MetadataCache callers: whether the thread waits for a lock, and in which call
    mlog,        \* per name: the entry of the last completed insert that nothing has dropped since
    mret,        \* the last MetadataCache call: what it saw and what it returned
    retry,       \* one with_retry call: its position, attempt, delay, last_error, and what it did so far
    ver,         \* the Version values and the requirement a version check is made on
    vret,        \* what the last version check computed
    tfs,         \* the directory tree an archive is extracted into: path -> node
    tar,         \* the extraction in progress and what it has done
    lfs,         \* the filesystem the linker works on: tree path -> node, data inode -> bytes
    lret,        \* what the last Linker call was given, saw and returned
    lcalls       \* how many Linker calls were made

casVars == <<files, index, indexFile, now, ret, storedLog, writeCount>>
thrVars == <<pc, tcontent, thash, wrote>>
resVars == <<registry, memo, res, alive>>
selVars == <<sel>>
graphVars == <<dg, gret, added>>
idxVars == <<ithr, ilog>>
metaVars == <<cache, mthr, mlog, mret>>
retryVars == <<retry>>
verVars == <<ver, vret>>
tarVars == <<tfs, tar>>
linkVars == <<lfs, lret, lcalls>>
vars == <<files, index, indexFile, now, ret, storedLog, writeCount,
          pc, tcontent, thash, wrote, registry, memo, res, alive, sel,
          dg, gret, added,
          ithr, ilog,
          cache, mthr, mlog, mret,
          retry,
          ver, vret,
          tfs, tar,
          lfs, lret, lcalls>>

Threads == 1..NumThreads

NoRet ==
    [op |-> "none", hash |-> 0, data |-> <<>>, ok |-> TRUE, flag |-> FALSE,
     n |-> 0, existed |-> FALSE, before |-> None, wcBefore |-> 0,
     days |-> 0, freed |-> 0, indexBefore |-> <<>>, filesBefore |-> <<>>,
     at |-> 0, err |-> "", keys |-> <<>>]

CasInit ==
    /\ files = <<>>
    /\ index = <<>>
    /\ indexFile = None
    /\ now = 0
    /\ ret = NoRet
    /\ storedLog = {}
    /\ writeCount = [p \in {hash_to_path(h) : h \in Hashes} \cup
                          {hash_to_path_shard_only(h) : h \in Hashes} |-> 0]

ThreadInit ==
    /\ pc = [t \in Threads |-> "idle"]
    /\ tcontent = [t \in Threads |-> <<>>]
    /\ thash = [t \in Threads |-> 0]
    /\ wrote = [t \in Threads |-> FALSE]

NoRes ==
    [status |-> "none", roots |-> <<>>, ws |-> <<>>, err |-> NoError, result |-> None,
     fetched |-> {}, expanded |-> {}, memoBefore |-> <<>>]

\* Resolver::new: nothing memoized
ResolverInit ==
    /\ memo = <<>>
    /\ res = NoRes
    /\ alive = TRUE

NoSel ==
    [op |-> "none", name |-> "", available |-> <<>>, constraints |-> <<>>,
     allow_prerelease |-> FALSE, out |-> None]

NoGret ==
    [op |-> "none", ok |-> TRUE, index |-> 0, package |-> NoNode, from |-> NoNode.id,
     to |-> NoNode.id, ids |-> <<>>, msg |-> <<>>, warnings |-> <<>>, err |-> NoError,
     before |-> DependencyGraph_new]

\* DependencyGraph::new
GraphInit ==
    /\ dg = DependencyGraph_new
    /\ gret = NoGret
    /\ added = {}

\* a thread that is in no CasIndex call
NoIndexCall == [pc |-> "idle", key |-> <<>>, entry |-> CacheEntry_new(0, 0, 0)]

\* what is known of a key no caller has inserted or removed
NoIndexLog == [kind |-> "none", entry |-> CacheEntry_new(0, 0, 0), stamps |-> {}]

IndexInit ==
    /\ ithr = [t \in Threads |-> NoIndexCall]
    /\ ilog = <<>>

\* a thread that is in no MetadataCache call
NoMetaCall == [pc |-> "idle", op |-> "none", name |-> ""]

\* no MetadataCache call made yet
NoMret ==
    [op |-> "none", name |-> "", thread |-> 0, returned |-> TRUE, at |-> 0, seen |-> None,
     out |-> None, after |-> None, total |-> 0, totalAfter |-> 0]

\* MetadataCache::new
MetaInit ==
    /\ cache = <<>>
    /\ mthr = [t \in Threads |-> NoMetaCall]
    /\ mlog = <<>>
    /\ mret = NoMret

\* no with_retry call made yet
NoRetry ==
    [pc |-> "idle", max_retries |-> 0, attempt |-> 0, delay |-> 0, last_error |-> None,
     log |-> <<>>, slept |-> <<>>, result |-> None]

RetryInit == retry = NoRetry

\* no version check made: the inputs are 0.0.0
NoVer == [a |-> Version_new(0, 0, 0), b |-> Version_new(0, 0, 0), c |-> Version_new(0, 0, 0)]

NoVret ==
    [op |-> "none", ab |-> 0, ba |-> 0, bc |-> 0, cb |-> 0, ac |-> 0, ca |-> 0,
     text |-> <<>>, parsed |-> None, req |-> None, matched |-> FALSE]

VerInit ==
    /\ ver = NoVer
    /\ vret = NoVret

\* extract_tarball's dest_dir, and a directory outside it
DestDir == <<"w", "d">>
OutsideDir == <<"e">>

DirNode == [kind |-> "dir", target |-> <<>>]
FileNode == [kind |-> "file", target |-> <<>>]
LinkNode(target) == [kind |-> "link", target |-> target]

\* the tree before an extraction: /w and /e exist, dest_dir does not
InitialTree == [p \in {<<"w">>, OutsideDir} |-> DirNode]

NoEntry == [path |-> <<>>, type |-> "Other", link_name |-> None]

\* no extraction started
NoTar ==
    [status |-> "idle", err |-> "", entries |-> <<>>, made |-> {}, links |-> {},
     before |-> InitialTree]

TarInit ==
    /\ tfs = InitialTree
    /\ tar = NoTar

\* directories of the linker's filesystem: the CAS root, the extracted
\* packages and the node_modules root
CasRoot == <<"c">>
SourceRoot == <<"s">>
NodeModules == <<"n">>

dir_node == [kind |-> "dir", ino |-> 0, target |-> <<>>]
file_node(ino) == [kind |-> "file", ino |-> ino, target |-> <<>>]
link_node(target) == [kind |-> "link", ino |-> 0, target |-> target]

\* the blob of SampleContents[2] in the CAS; the shard directories are left out
BlobFile == CasRoot \o <<"blob">>

\* the index file of the CAS
IndexFile == CasRoot \o <<"index.json">>

\* before the first Linker call: one CAS blob and the index; package p with
\* f (a hardlink of the blob) and d/g; package q with f
InitialFiles ==
    [tree |-> (CasRoot :> dir_node) @@ (BlobFile :> file_node(1))
              @@ (IndexFile :> file_node(4))
              @@ (SourceRoot :> dir_node)
              @@ ((SourceRoot \o <<"p">>) :> dir_node)
              @@ ((SourceRoot \o <<"p", "f">>) :> file_node(1))
              @@ ((SourceRoot \o <<"p", "d">>) :> dir_node)
              @@ ((SourceRoot \o <<"p", "d", "g">>) :> file_node(2))
              @@ ((SourceRoot \o <<"q">>) :> dir_node)
              @@ ((SourceRoot \o <<"q", "f">>) :> file_node(3)),
     data |-> (1 :> SampleContents[2]) @@ (2 :> SampleContents[3]) @@ (3 :> SampleContents[4])
              @@ (4 :> SampleContents[6])]

LinkResult_default == [hardlinks_created |-> 0, files_copied |-> 0, directories_created |-> 0]

NodeModulesResult_default ==
    [packages_linked |-> 0, hardlinks_created |-> 0, files_copied |-> 0, bin_links_created |-> 0]

CleanupResult_default == [files_removed |-> 0, directories_removed |-> 0]

\* what the filesystem does on a call: it refuses hardlinks (cross-device,
\* unsupported), a copy fails (no space), a copy of a file onto itself
\* truncates it
NoEnv == [refuse |-> FALSE, copy_fails |-> FALSE, truncates |-> FALSE]

NoLret ==
    [op |-> "none", ok |-> TRUE, source |-> <<>>, dest |-> <<>>, packages |-> <<>>,
     env |-> NoEnv,
     link |-> LinkResult_default, modules |-> NodeModulesResult_default,
     cleanup |-> CleanupResult_default, before |-> InitialFiles]

LinkInit ==
    /\ lfs = InitialFiles
    /\ lret = NoLret
    /\ lcalls = 0

InitCas ==
    /\ CasInit
    /\ ThreadInit
    /\ ResolverInit
    /\ registry = SampleRegistries[1]
    /\ sel = NoSel
    /\ GraphInit
    /\ IndexInit
    /\ MetaInit
    /\ RetryInit
    /\ VerInit
    /\ TarInit
    /\ LinkInit

\* path.exists()
exists(fs, path) == path \in DOMAIN fs

\* fs::write(path, content)
fs_write(fs, path, content) ==
    [p \in (DOMAIN fs) \cup {path} |-> IF p = path THEN content ELSE fs[p]]

\* fs::remove_file(path)
fs_remove(fs, path) == [p \in (DOMAIN fs) \ {path} |-> fs[p]]

Bump(wc, path) == [wc EXCEPT ![path] = Min(@ + 1, WriteCap)]

(***************************************************************************)
(* cas/store.rs: operations, each as one call on the store                 *)
(***************************************************************************)
\* the "touch on access" block shared by store and get:
\*   if let Some(mut entry) = self.index.get(&key) { entry.touch(); insert }
TouchOnAccess(idx, key, t) ==
    LET g == CasIndex_get(idx, key, t)
    IN  IF g.found # None
        THEN CasIndex_insert(g.idx, key, touch(Unwrap(g.found), t))
        ELSE g.idx

\* CasStore::store
Store(content) ==
    LET hash == compute_hash(content)
        path == hash_to_path(hash)
        key  == to_hex(hash)
    IN  /\ IF exists(files, path)
           THEN /\ index' = TouchOnAccess(index, key, now)
                /\ UNCHANGED <<files, writeCount>>
           ELSE /\ files' = fs_write(files, path, content)
                /\ writeCount' = Bump(writeCount, path)
                /\ index' = CasIndex_insert(index, key,
                                CacheEntry_new(hash, Len(content), now))
        /\ ret' = [NoRet EXCEPT !.op = "store", !.hash = hash, !.data = content,
                                !.existed = exists(files, path),
                                !.before = IF key \in DOMAIN index
                                           THEN Some(index[key]) ELSE None,
                                !.wcBefore = writeCount[path]]
        /\ storedLog' = storedLog \cup {[b |-> content, h |-> hash]}
        /\ UNCHANGED <<indexFile, now>>

\* mutant: a missing blob reads as an empty one
GetResult_lenient(fs, idx, hash, t) ==
    LET path == hash_to_path(hash)
    IN  [ok |-> TRUE, err |-> "", data |-> IF exists(fs, path) THEN fs[path] ELSE <<>>,
         idx |-> TouchOnAccess(idx, to_hex(hash), t)]

\* the body of CasStore::get as a value: the result and the index afterwards
GetResult(fs, idx, hash, t) ==
    LET path == hash_to_path(hash)
    IN  IF ~exists(fs, path)
        THEN [ok |-> FALSE, err |-> "IntegrityFailure", data |-> <<>>, idx |-> idx]
        ELSE [ok |-> TRUE, err |-> "", data |-> fs[path],
              idx |-> TouchOnAccess(idx, to_hex(hash), t)]

\* CasStore::get
Get(hash) ==
    LET r == GetResult(files, index, hash, now)
    IN  /\ index' = r.idx
        /\ ret' = [NoRet EXCEPT !.op = "get", !.hash = hash, !.ok = r.ok,
                                !.data = r.data, !.at = now, !.err = r.err,
                                !.indexBefore = index, !.filesBefore = files,
                                !.existed = exists(files, hash_to_path(hash)),
                                !.before = IF to_hex(hash) \in DOMAIN index
                                           THEN Some(index[to_hex(hash)]) ELSE None]
        /\ UNCHANGED <<files, indexFile, now, storedLog, writeCount>>

\* CasStore::verify
Verify(hash) ==
    LET r == GetResult(files, index, hash, now)
    IN  /\ index' = r.idx
        /\ ret' = [NoRet EXCEPT !.op = "verify", !.hash = hash,
                                !.existed = exists(files, hash_to_path(hash)),
                                !.indexBefore = index, !.filesBefore = files,
                                !.flag = IF r.ok THEN compute_hash(r.data) = hash
                                         ELSE FALSE]
        /\ UNCHANGED <<files, indexFile, now, storedLog, writeCount>>

\* CasStore::contains
Contains(hash) ==
    /\ ret' = [NoRet EXCEPT !.op = "contains", !.hash = hash,
                            !.flag = exists(files, hash_to_path(hash))]
    /\ UNCHANGED <<files, index, indexFile, now, storedLog, writeCount>>

\* CasStore::save_index
SaveIndex ==
    /\ indexFile' = Some(CasIndex_save(index))
    /\ ret' = [NoRet EXCEPT !.op = "save_index"]
    /\ UNCHANGED <<files, index, now, storedLog, writeCount>>

\* let threshold = Utc::now().timestamp() - (max_age_days * 24 * 60 * 60)
gc_threshold(max_age_days, t) == t - (max_age_days * 24 * 60 * 60)

\* the keys of an index, one after the other
RECURSIVE keys_of(_)
keys_of(idx) ==
    IF DOMAIN idx = {} THEN <<>>
    ELSE LET k == CHOOSE key \in DOMAIN idx : TRUE
         IN  <<k>> \o keys_of([key \in (DOMAIN idx) \ {k} |-> idx[key]])

\* mutant: every key of the index is reported
find_unreferenced_entries_all(idx, max_age_days, t) == keys_of(idx)

\* CasStore::find_unreferenced_entries: computes the threshold and returns
\* the list it never fills
find_unreferenced_entries(idx, max_age_days, t) == <<>>

\* CasStore::remove_entries: the files left and the bytes freed; the index
\* lookup touches each key it finds, the index entry itself is not removed
RECURSIVE remove_entries(_, _, _, _)
remove_entries(fs, idx, keys, t) ==
    IF keys = <<>> THEN [fs |-> fs, idx |-> idx, freed |-> 0]
    ELSE LET key == Head(keys)
             g == CasIndex_get(idx, key, t)
         IN  IF g.found = None
             THEN remove_entries(fs, idx, Tail(keys), t)
             ELSE LET path == hash_to_path(Unwrap(g.found).hash)
                      here == IF exists(fs, path) THEN Len(fs[path]) ELSE 0
                      fs2  == IF exists(fs, path) THEN fs_remove(fs, path) ELSE fs
                      rest == remove_entries(fs2, g.idx, Tail(keys), t)
                  IN  [fs |-> rest.fs, idx |-> rest.idx, freed |-> here + rest.freed]

\* CasStore::garbage_collect
GarbageCollect(max_age_days) ==
    LET unreferenced == find_unreferenced_entries(index, max_age_days, now)
        r == remove_entries(files, index, unreferenced, now)
    IN  /\ files' = r.fs
        /\ index' = r.idx
        /\ indexFile' = Some(CasIndex_save(r.idx))
        /\ ret' = [NoRet EXCEPT !.op = "garbage_collect", !.days = max_age_days,
                                !.n = Len(unreferenced), !.freed = r.freed,
                                !.indexBefore = index, !.filesBefore = files,
                                !.at = now]
        /\ UNCHANGED <<now, storedLog, writeCount>>

\* CasStore::new on the directory of this store: the process starts again
\* and the index is what index.json holds
Reopen ==
    /\ index' = IF indexFile = None THEN <<>> ELSE CasIndex_load(Unwrap(indexFile))
    /\ ret' = [NoRet EXCEPT !.op = "new"]
    /\ UNCHANGED <<files, indexFile, now, storedLog, writeCount>>

\* the clock advances between calls
Tick ==
    /\ now < MaxTime
    /\ now' = now + 1
    /\ UNCHANGED <<files, index, indexFile, ret, storedLog, writeCount>>

CasNext ==
    \/ \E content \in Contents : Store(content)
    \/ \E hash \in Hashes : Get(hash)
    \/ \E hash \in Hashes : Verify(hash)
    \/ \E hash \in Hashes : Contains(hash)
    \/ SaveIndex
    \/ \E days \in 0..1 : GarbageCollect(days)
    \/ Reopen
    \/ Tick

SpecCas ==
    /\ InitCas
    /\ [][CasNext /\ UNCHANGED <<thrVars, resVars, selVars, graphVars, idxVars, metaVars, retryVars, verVars, tarVars, linkVars>>]_vars

(***************************************************************************)
(* cas/store.rs: store called from several threads at once.  Each thread   *)
(* runs store once, one filesystem or index call per step.                 *)
(***************************************************************************)
\* the call begins: compute_hash and hash_to_path
StoreCall(t, content) ==
    /\ pc[t] = "idle"
    /\ pc' = [pc EXCEPT ![t] = "check"]
    /\ tcontent' = [tcontent EXCEPT ![t] = content]
    /\ thash' = [thash EXCEPT ![t] = compute_hash(content)]
    /\ UNCHANGED <<wrote, files, index, indexFile, now, ret, storedLog, writeCount>>

\* if path.exists() { touch the index entry; return Ok(hash) }
StoreCheck(t) ==
    /\ pc[t] = "check"
    /\ IF exists(files, hash_to_path(thash[t]))
       THEN /\ index' = TouchOnAccess(index, to_hex(thash[t]), now)
            /\ pc' = [pc EXCEPT ![t] = "returned"]
       ELSE /\ pc' = [pc EXCEPT ![t] = "create"]
            /\ UNCHANGED index
    /\ UNCHANGED <<tcontent, thash, wrote, files, indexFile, now, ret, storedLog, writeCount>>

\* fs::write, first half: the file is created or truncated
StoreCreate(t) ==
    /\ pc[t] = "create"
    /\ files' = fs_write(files, hash_to_path(thash[t]), <<>>)
    /\ pc' = [pc EXCEPT ![t] = "write"]
    /\ UNCHANGED <<tcontent, thash, wrote, index, indexFile, now, ret, storedLog, writeCount>>

\* fs::write, second half: the bytes are written
StoreWrite(t) ==
    /\ pc[t] = "write"
    /\ files' = fs_write(files, hash_to_path(thash[t]), tcontent[t])
    /\ wrote' = [wrote EXCEPT ![t] = TRUE]
    /\ writeCount' = Bump(writeCount, hash_to_path(thash[t]))
    /\ pc' = [pc EXCEPT ![t] = "insert"]
    /\ UNCHANGED <<tcontent, thash, index, indexFile, now, ret, storedLog>>

\* self.index.insert(hash.to_hex(), entry); Ok(hash)
StoreInsert(t) ==
    /\ pc[t] = "insert"
    /\ index' = CasIndex_insert(index, to_hex(thash[t]),
                    CacheEntry_new(thash[t], Len(tcontent[t]), now))
    /\ pc' = [pc EXCEPT ![t] = "returned"]
    /\ UNCHANGED <<tcontent, thash, wrote, files, indexFile, now, ret, storedLog, writeCount>>

ClockTick ==
    /\ Tick
    /\ UNCHANGED thrVars

StoreNext ==
    \/ \E t \in Threads, content \in Contents : StoreCall(t, content)
    \/ \E t \in Threads : StoreCheck(t)
    \/ \E t \in Threads : StoreCreate(t)
    \/ \E t \in Threads : StoreWrite(t)
    \/ \E t \in Threads : StoreInsert(t)
    \/ ClockTick

InitStore == InitCas

SpecStore ==
    /\ InitStore
    /\ [][StoreNext /\ UNCHANGED <<resVars, selVars, graphVars, idxVars, metaVars, retryVars, verVars, tarVars, linkVars>>]_vars

(***************************************************************************)
(* sat/mod.rs: resolve calls on one Resolver.  resolved_packages lives as  *)
(* long as the Resolver, so what one call memoizes the next call sees.     *)
(***************************************************************************)
\* root dependencies per call
MaxRoots == 2

\* the (name, version_req) pairs a caller asks for
RootPool ==
    {Dep("a", ReqText(<<"^">>, Version_new(1, 0, 0))), Dep("b", Star), Dep("c", BadText)}

\* the root lists a caller passes: the entries of a manifest's dependency
\* table, each name once
RootLists ==
    {roots \in SeqsUpTo(RootPool, MaxRoots) :
        \A i, j \in DOMAIN roots : i # j => roots[i].name # roots[j].name}

\* the workspace maps a caller passes: none, or b as a member
WorkspacePath(name) == <<"/", name>>
WorkspaceChoices == {[n \in M |-> WorkspacePath(n)] : M \in {{}, {"b"}}}

InitResolve ==
    /\ CasInit
    /\ ThreadInit
    /\ ResolverInit
    /\ registry \in Range(SampleRegistries)
    /\ sel = NoSel
    /\ GraphInit
    /\ IndexInit
    /\ MetaInit
    /\ RetryInit
    /\ VerInit
    /\ TarInit
    /\ LinkInit

\* Resolver::resolve / resolve_with_workspace / resolve_with_features
Returns(root_dependencies, workspace_members, r) ==
    /\ memo' = r.memo
    /\ alive' = (r.status # "overflow")
    /\ res' = [status |-> r.status, roots |-> root_dependencies,
               ws |-> workspace_members, err |-> r.err, result |-> r.result,
               fetched |-> r.fetched, expanded |-> r.expanded,
               memoBefore |-> memo]
    /\ UNCHANGED <<registry, sel, casVars, thrVars, graphVars, idxVars, metaVars, retryVars, verVars, tarVars, linkVars>>

Resolve(root_dependencies, workspace_members) ==
    /\ alive
    /\ Returns(root_dependencies, workspace_members,
               resolve_with_features(registry, memo, root_dependencies, workspace_members))

\* Resolver::new: a fresh Resolver on the same registry
NewResolver ==
    /\ memo # <<>> \/ ~alive
    /\ memo' = <<>>
    /\ res' = NoRes
    /\ alive' = TRUE
    /\ UNCHANGED <<registry, sel, casVars, thrVars, graphVars, idxVars, metaVars, retryVars, verVars, tarVars, linkVars>>

ResolveNext ==
    \/ \E root_dependencies \in RootLists, workspace_members \in WorkspaceChoices :
            Resolve(root_dependencies, workspace_members)
    \/ NewResolver

SpecResolve ==
    /\ InitResolve
    /\ [][ResolveNext]_vars

(***************************************************************************)
(* semver/mod.rs: a selection on arbitrary versions and requirements, and  *)
(* the selection the resolver makes for a registry package                 *)
(***************************************************************************)
\* versions handed to VersionSelector::new, requirements per selection
MaxAvail == 3
MaxReqs == 2

VersionPool ==
    {Version_new(1, 0, 0), Version_new(1, 2, 3), Version_new(2, 0, 0),
     Pre(<<"a">>, Version_new(2, 0, 0)), Build(<<"b">>, Version_new(1, 2, 3))}

ReqTextPool ==
    {ReqText(<<"^">>, Version_new(1, 0, 0)), Star,
     ReqText(<<">", "=">>, Pre(<<"a">>, Version_new(2, 0, 0))),
     ReqText(<<"<">>, Version_new(2, 0, 0))}

ReqPool == {Unwrap(VersionReq_parse(t)) : t \in ReqTextPool}

InitSel ==
    /\ CasInit
    /\ ThreadInit
    /\ ResolverInit
    /\ registry = SampleRegistries[1]
    /\ \E available \in SeqsUpTo(VersionPool, MaxAvail),
          constraints \in SeqsUpTo(ReqPool, MaxReqs),
          allow_prerelease \in BOOLEAN :
            sel = [NoSel EXCEPT !.available = available, !.constraints = constraints,
                                !.allow_prerelease = allow_prerelease]
    /\ GraphInit
    /\ IndexInit
    /\ MetaInit
    /\ RetryInit
    /\ VerInit
    /\ TarInit
    /\ LinkInit

\* VersionSelector::new(available).select_preferred(constraints, allow_prerelease)
Select ==
    /\ sel.op = "none"
    /\ sel' = [sel EXCEPT !.op = "select",
                          !.out = select_preferred(VersionSelector_new(sel.available),
                                                   sel.constraints, sel.allow_prerelease)]
    /\ UNCHANGED <<registry, memo, res, alive, casVars, thrVars, graphVars, idxVars, metaVars, retryVars, verVars, tarVars, linkVars>>

Picked(name, r) ==
    /\ memo' = r.memo
    /\ sel' = [sel EXCEPT !.op = "pick", !.name = name,
                          !.available = Published(name),
                          !.out = IF r.ok THEN Some(r.node.version) ELSE None]
    /\ UNCHANGED <<registry, res, alive, casVars, thrVars, graphVars, idxVars, metaVars, retryVars, verVars, tarVars, linkVars>>

\* Resolver::resolve_package_with_workspace on a registry package: the call
\* takes a name and one requirement, the versions are the published ones
Pick(name) ==
    /\ sel.op = "none"
    /\ sel.available = <<>> /\ Len(sel.constraints) = 1 /\ ~sel.allow_prerelease
    /\ Picked(name, resolve_package_with_workspace(registry, memo, {}, name,
                                                   sel.constraints[1], <<>>))

SelNext ==
    \/ Select
    \/ \E name \in Names : Pick(name)

SpecSel ==
    /\ InitSel
    /\ [][SelNext]_vars

(***************************************************************************)
(* graph/mod.rs: calls on one DependencyGraph                              *)
(***************************************************************************)
\* nodes and edges a graph is grown to
MaxNodes == 3
MaxEdges == 3

RegistryNode(name, version, integrity) ==
    PackageNode_new(name, version, Tarball(name, Version_to_string(version)), integrity)

\* the nodes a caller adds: one per name, and a second node with the id of a
PackagePool ==
    {RegistryNode("a", Version_new(1, 2, 3), "sha512"),
     RegistryNode("a", Version_new(1, 2, 3), "sha1"),
     RegistryNode("b", Version_new(2, 2, 0), "sha1"),
     RegistryNode("c", Pre(<<"b">>, Version_new(1, 0, 0)), "sha512")}

PackageIds == {package.id : package \in PackagePool}

InitGraph ==
    /\ CasInit
    /\ ThreadInit
    /\ ResolverInit
    /\ registry = SampleRegistries[1]
    /\ sel = NoSel
    /\ GraphInit
    /\ IndexInit
    /\ MetaInit
    /\ RetryInit
    /\ VerInit
    /\ TarInit
    /\ LinkInit

\* DependencyGraph::add_package
AddPackage(package) ==
    /\ Len(dg.nodes) < MaxNodes \/ package.id \in DOMAIN dg.node_map
    /\ dg' = add_package(dg, package).graph
    /\ gret' = [NoGret EXCEPT !.op = "add_package", !.package = package,
                              !.index = add_package(dg, package).index, !.before = dg]
    /\ added' = added \cup {package.id}
    /\ UNCHANGED <<casVars, thrVars, resVars, selVars, idxVars, metaVars, retryVars, verVars, tarVars, linkVars>>

DependencyAdded(from_package, to_package, r) ==
    /\ dg' = r.graph
    /\ gret' = [NoGret EXCEPT !.op = "add_dependency", !.from = from_package,
                              !.to = to_package, !.ok = r.ok,
                              !.msg = IF r.ok THEN <<>> ELSE <<r.err, r.missing>>,
                              !.before = dg]
    /\ UNCHANGED <<added, casVars, thrVars, resVars, selVars, idxVars, metaVars, retryVars, verVars, tarVars, linkVars>>

\* DependencyGraph::add_dependency
AddDependency(from_package, to_package) ==
    /\ Len(dg.edges) < MaxEdges
    /\ DependencyAdded(from_package, to_package,
            add_dependency(dg, from_package, to_package,
                           DependencyEdge_normal(Unwrap(VersionReq_parse(Star)))))

\* a call that only reads the graph returns
GraphReturns(r) ==
    /\ gret' = r
    /\ UNCHANGED <<dg, added, casVars, thrVars, resVars, selVars, idxVars, metaVars, retryVars, verVars, tarVars, linkVars>>

CyclesDetected(r) ==
    GraphReturns([NoGret EXCEPT !.op = "detect_cycles", !.ok = r.ok, !.ids = r.cycle])

\* DependencyGraph::detect_cycles
DetectCycles == CyclesDetected(detect_cycles(dg))

CyclesValidated(r) ==
    GraphReturns([NoGret EXCEPT !.op = "validate_no_cycles", !.ok = r.ok, !.msg = r.msg])

\* DependencyGraph::validate_no_cycles
ValidateNoCycles == CyclesValidated(validate_no_cycles(dg))

Sorted(r) ==
    GraphReturns([NoGret EXCEPT !.op = "topological_sort", !.ok = r.ok, !.ids = r.sorted,
                                !.msg = r.msg])

\* DependencyGraph::topological_sort
TopologicalSort == Sorted(topological_sort(dg))

GraphNext ==
    \/ \E package \in PackagePool : AddPackage(package)
    \/ \E from_package, to_package \in PackageIds : AddDependency(from_package, to_package)
    \/ DetectCycles
    \/ ValidateNoCycles
    \/ TopologicalSort

SpecGraph ==
    /\ InitGraph
    /\ [][GraphNext]_vars

(***************************************************************************)
(* sat/mod.rs: peer validation of a graph.  It reads the nodes only, so    *)
(* the graphs are grown by add_package.                                    *)
(***************************************************************************)
\* the registry the graph's packages come from: every package declares
\* peers, the requirement c declares does not parse
PeerRegistry ==
    [deps  |-> [n \in Names |-> None],
     peers |-> [n \in Names |-> CASE n = "a" -> Some(<<Dep("b", ReqText(<<"^">>, Version_new(2, 2, 0))),
                                                     Dep("c", Star)>>)
                                  [] n = "b" -> Some(<<Dep("c", ReqText(<<"^">>, Version_new(9, 0, 0)))>>)
                                  [] n = "c" -> Some(<<Dep("a", BadText)>>)],
     known |-> Names]

\* the nodes of the graphs that are validated: registry packages, two
\* versions of b among them, and b as a workspace member
PeerPool ==
    {RegistryNode("a", Version_new(1, 2, 3), "sha512"),
     RegistryNode("b", Version_new(2, 1, 5), "sha1"),
     RegistryNode("b", Version_new(2, 2, 0), "sha1"),
     PackageNode_new("b", Version_new(0, 0, 0), FileUrl(WorkspacePath("b")), "workspace"),
     RegistryNode("c", Pre(<<"b">>, Version_new(1, 0, 0)), "sha512")}

InitPeers ==
    /\ CasInit
    /\ ThreadInit
    /\ ResolverInit
    /\ registry = PeerRegistry
    /\ sel = NoSel
    /\ GraphInit
    /\ IndexInit
    /\ MetaInit
    /\ RetryInit
    /\ VerInit
    /\ TarInit
    /\ LinkInit

PeersValidated(r) ==
    GraphReturns([NoGret EXCEPT !.op = "validate_peer_dependencies", !.ok = r.ok,
                                !.warnings = r.warnings, !.err = r.err])

\* Resolver::validate_peer_dependencies
ValidatePeerDependencies == PeersValidated(validate_peer_dependencies(registry, dg))

PeersNext ==
    \/ \E package \in PeerPool : AddPackage(package)
    \/ ValidatePeerDependencies

SpecPeers ==
    /\ InitPeers
    /\ [][PeersNext]_vars

(***************************************************************************)
(* Claims on the content-addressable store                                 *)
(***************************************************************************)
StoredHashes == {p.h : p \in storedLog}

\* C1: once store(B) has returned H, every later get(H) returns exactly B
\* and every later verify(H) returns true, whatever store, get, contains,
\* verify, save_index and garbage_collect calls came in between.
C1_StoreThenGet ==
    /\ (ret.op = "get" /\ ret.hash \in StoredHashes) =>
            /\ ret.ok
            /\ \A p \in storedLog : p.h = ret.hash => ret.data = p.b
    /\ (ret.op = "verify" /\ ret.hash \in StoredHashes) => ret.flag

\* a get of a stored hash after other content was stored and the index saved
C1_Witness ==
    /\ ret.op = "get"
    /\ ret.hash \in StoredHashes
    /\ Cardinality(storedLog) >= 2
    /\ ret.data # <<>>
    /\ indexFile # None

\* C2: when several callers run store(B) concurrently for the same B, all
\* return the same hash, the blob file ends up holding exactly B, and at most
\* one of the callers writes the blob file.
C2_SingleWriter ==
    (\A t \in Threads : pc[t] = "returned") =>
        \A t1, t2 \in Threads :
            tcontent[t1] = tcontent[t2] =>
                /\ thash[t1] = thash[t2]
                /\ exists(files, hash_to_path(thash[t1]))
                /\ files[hash_to_path(thash[t1])] = tcontent[t1]
                /\ (t1 # t2 => ~(wrote[t1] /\ wrote[t2]))

\* C3: store(B) of a blob that already exists returns the hash of the first
\* call, does not write the blob file again and leaves hash, size and
\* stored_at of the index entry as they were.
C3_StoreIdempotent ==
    (ret.op = "store" /\ ret.existed) =>
        LET path == hash_to_path(ret.hash)
            key  == to_hex(ret.hash)
        IN  /\ \A p \in storedLog : p.b = ret.data => p.h = ret.hash
            /\ writeCount[path] = ret.wcBefore
            /\ files[path] = ret.data
            /\ ret.before # None =>
                /\ key \in DOMAIN index
                /\ index[key].hash = Unwrap(ret.before).hash
                /\ index[key].size = Unwrap(ret.before).size
                /\ index[key].stored_at = Unwrap(ret.before).stored_at

\* a second store of the same bytes at a later time: the entry is refreshed
C3_Witness ==
    /\ ret.op = "store"
    /\ ret.existed
    /\ ret.before # None
    /\ to_hex(ret.hash) \in DOMAIN index
    /\ index[to_hex(ret.hash)].last_accessed > Unwrap(ret.before).last_accessed
    /\ index[to_hex(ret.hash)].stored_at < now

(***************************************************************************)
(* Claims on version selection                                             *)
(***************************************************************************)
\* the available versions that satisfy every requirement of the selection
Satisfying == {v \in Range(sel.available) : \A i \in 1..Len(sel.constraints) :
                                                matches(sel.constraints[i], v)}
StableSatisfying == {v \in Satisfying : v.prerelease = None}

\* out is Some(v) with v in T and no version of T above it in version order
GreatestOf(T, out) ==
    /\ out # None
    /\ Unwrap(out) \in T
    /\ \A w \in T : precedence_cmp(w, Unwrap(out)) <= 0

\* C7: select_preferred(reqs, false) returns the greatest available version
\* without a prerelease that satisfies every requirement, the greatest
\* satisfying prerelease only when there is no such stable version, and None
\* exactly when nothing satisfies; select_preferred(reqs, true) returns the
\* greatest satisfying version of any kind; the resolver picks a registry
\* package's version as select_preferred(req, false) does, 1.2.3 for
\* published [1.0.0, 1.2.3, 2.0.0] and ^1.0.0.
C7_SelectPreferred ==
    /\ sel.op # "none" =>
        /\ (sel.out = None) <=> (Satisfying = {})
        /\ (sel.allow_prerelease /\ Satisfying # {}) => GreatestOf(Satisfying, sel.out)
        /\ (~sel.allow_prerelease /\ StableSatisfying # {}) =>
                GreatestOf(StableSatisfying, sel.out)
        /\ (~sel.allow_prerelease /\ StableSatisfying = {} /\ Satisfying # {}) =>
                GreatestOf(Satisfying, sel.out)
    /\ (/\ sel.op = "pick"
        /\ sel.name = "a"
        /\ sel.constraints = <<Unwrap(VersionReq_parse(ReqText(<<"^">>, Version_new(1, 0, 0))))>>)
            => sel.out = Some(Version_new(1, 2, 3))

\* a stable version is selected although a satisfying prerelease is above it
C7_Witness ==
    /\ sel.op = "select"
    /\ ~sel.allow_prerelease
    /\ sel.out # None
    /\ \E v \in Satisfying : precedence_cmp(v, Unwrap(sel.out)) > 0

(***************************************************************************)
(* Claims on resolution.  What the registry declares is read off the       *)
(* registry itself, not off the resolver's run.                            *)
(***************************************************************************)
Returned == res.status # "none"
IsOk == res.status = "ok"
ResGraph == Unwrap(res.result).graph

\* the dependency and peer tables a package publishes
DepsOf(name) == IF registry.deps[name] = None THEN <<>> ELSE Unwrap(registry.deps[name])
PeersOf(name) == IF registry.peers[name] = None THEN <<>> ELSE Unwrap(registry.peers[name])
DepNames(name) == {DepsOf(name)[i].name : i \in DOMAIN DepsOf(name)}

IsMember(name) == name \in DOMAIN res.ws
RootNames == {res.roots[i].name : i \in DOMAIN res.roots}

\* the names a complete expansion of S visits; members are not expanded
RECURSIVE Closure(_, _)
Closure(S, k) ==
    IF k = 0 THEN S
    ELSE Closure(S \cup UNION {DepNames(n) : n \in {m \in S : ~IsMember(m)}}, k - 1)

Visited == Closure(RootNames, Cardinality(Names))
Expanded == {n \in Visited : ~IsMember(n) /\ n \in registry.known}

\* every requirement the roots and the visited dependency tables declare
DeclaredReqs == Range(res.roots) \cup UNION {Range(DepsOf(n)) : n \in Expanded}

Unparseable(d) == VersionReq_parse(d.req) = None
Unknown(d) == ~IsMember(d.name) /\ d.name \notin registry.known
Unsatisfiable(d) ==
    /\ ~Unparseable(d) /\ ~IsMember(d.name) /\ d.name \in registry.known
    /\ \A v \in Range(Published(d.name)) : ~matches(Unwrap(VersionReq_parse(d.req)), v)
BadPeer == \E n \in Expanded : registry.deps[n] # None /\ \E d \in Range(PeersOf(n)) : Unparseable(d)

\* a visited package reaches itself through the declared dependencies
CyclePublished == \E n \in Expanded : n \in Closure(DepNames(n), Cardinality(Names))

\* C4: resolve terminates on every finite registry; when the published
\* dependencies form a cycle (and nothing else is wrong with them) it returns
\* a ConflictError with required = 'acyclic' whose text names the cycle.
C4_Terminates ==
    /\ alive
    /\ (/\ Returned
        /\ CyclePublished
        /\ ~BadPeer
        /\ \A d \in DeclaredReqs : ~Unparseable(d) /\ ~Unknown(d) /\ ~Unsatisfiable(d))
            => /\ res.status = "err"
               /\ res.err.required = Word("acyclic")
               /\ res.err.conflict.detail # <<>>

\* C5: in every returned ResolutionResult the version of each edge's target
\* node satisfies the edge's version_req, workspace members included.
C5_EdgesSatisfied ==
    IsOk => \A i \in DOMAIN ResGraph.edges :
                matches(ResGraph.edges[i].weight.version_req,
                        ResGraph.nodes[ResGraph.edges[i].to].version)

\* node indices reachable from S along the edges
RECURSIVE EdgeClosure(_, _, _)
EdgeClosure(graph, S, k) ==
    IF k = 0 THEN S
    ELSE EdgeClosure(graph,
                     S \cup {graph.edges[i].to : i \in {j \in DOMAIN graph.edges :
                                                            graph.edges[j].from \in S}},
                     k - 1)

Successors(graph, n) == {graph.edges[i].to : i \in {j \in DOMAIN graph.edges :
                                                        graph.edges[j].from = n}}
Acyclic(graph) ==
    \A n \in DOMAIN graph.nodes :
        n \notin EdgeClosure(graph, Successors(graph, n), Len(graph.nodes))

\* every dependency a registry node declares has its edge to a node
Closed(graph) ==
    \A n \in DOMAIN graph.nodes :
        ~is_file_url(graph.nodes[n].resolved_url) =>
            \A d \in Range(DepsOf(graph.nodes[n].name)) :
                \E i \in DOMAIN graph.edges :
                    /\ graph.edges[i].from = n
                    /\ graph.nodes[graph.edges[i].to].name = d.name
                    /\ Some(graph.edges[i].weight.version_req) = VersionReq_parse(d.req)

\* C6: Ok(ResolutionResult) is returned only after every root and every
\* transitive normal dependency has been expanded and cycle validation has
\* passed: the graph is acyclic and closed, and when a step fails the caller
\* gets a ConflictError and no graph.
C6_OkAfterExpansion ==
    /\ IsOk =>
        /\ res.result # None
        /\ Acyclic(ResGraph)
        /\ Closed(ResGraph)
        /\ \A i \in DOMAIN Unwrap(res.result).roots :
                Unwrap(res.result).roots[i] \in DOMAIN ResGraph.node_map
        /\ \A n \in DOMAIN ResGraph.nodes :
                ~is_file_url(ResGraph.nodes[n].resolved_url) =>
                    ResGraph.nodes[n].id \in res.expanded
    /\ res.status = "err" => res.result = None /\ res.err # NoError

\* a result with two expanded registry packages and an edge between them
C6_Witness ==
    /\ IsOk
    /\ \E i \in DOMAIN ResGraph.edges :
        /\ ~is_file_url(ResGraph.nodes[ResGraph.edges[i].from].resolved_url)
        /\ ~is_file_url(ResGraph.nodes[ResGraph.edges[i].to].resolved_url)
        /\ ResGraph.edges[i].from # ResGraph.edges[i].to

WorkspaceNode(name) ==
    PackageNode_new(name, Version_new(0, 0, 0), FileUrl(res.ws[name]), "workspace")

\* C8: a name of the workspace map resolves to the node 0.0.0 /
\* file://<path> / 'workspace', is not fetched and is not expanded, whatever
\* earlier resolutions on the same Resolver memoized.
C8_WorkspaceWins ==
    \A name \in DOMAIN res.ws :
        /\ name \notin res.fetched
        /\ \A id \in res.expanded : id.name # name
        /\ IsOk => \A n \in DOMAIN ResGraph.nodes :
                        ResGraph.nodes[n].name = name =>
                            ResGraph.nodes[n] = WorkspaceNode(name)

\* C9: an unparseable root or transitive requirement fails resolve with
\* 'invalid version requirement', a requirement no published version
\* satisfies fails it with an error listing the available versions; the
\* first error met is returned and there is no result.
C9_FirstError ==
    /\ (Returned /\ \E d \in DeclaredReqs : Unparseable(d) \/ Unsatisfiable(d)) =>
        /\ res.status = "err"
        /\ res.result = None
        /\ \/ res.err.conflict.msg = "invalid version requirement"
           \/ /\ res.err.conflict.msg = "no matching version found"
              /\ res.err.conflict.detail =
                    [i \in 1..Len(VersionSelector_new(Published(res.err.package))) |->
                        Version_to_string(Published(res.err.package)[i])]
           \/ /\ res.err.conflict.msg = "package not found"
              /\ \E d \in DeclaredReqs : Unknown(d)
           \/ /\ res.err.conflict.msg = "invalid peer dependency version requirement"
              /\ BadPeer
    /\ (Returned /\ res.roots # <<>> /\ Unparseable(res.roots[1])) =>
        /\ res.status = "err"
        /\ res.err.package = res.roots[1].name
        /\ res.err.conflicting = "root"
        /\ res.err.conflict.msg = "invalid version requirement"

\* a package some node of the graph names as a peer, that is no root and in
\* no dependency table of a node of the graph
PeerOnly(graph, name) ==
    /\ \E n \in DOMAIN graph.nodes :
            /\ graph.nodes[n].id \in res.expanded
            /\ \E d \in Range(PeersOf(graph.nodes[n].name)) : d.name = name
    /\ name \notin RootNames
    /\ \A n \in DOMAIN graph.nodes : name \notin DepNames(graph.nodes[n].name)

\* C10: resolution adds no node and no edge for a peer dependency: every
\* edge of a returned graph is Normal and is an entry of the dependencies
\* table of its source, and a package named only as a peer is not in the
\* graph.
C10_PeersNotResolved ==
    IsOk =>
        /\ \A i \in DOMAIN ResGraph.edges :
            /\ ResGraph.edges[i].weight.kind = "Normal"
            /\ \E d \in Range(DepsOf(ResGraph.nodes[ResGraph.edges[i].from].name)) :
                /\ d.name = ResGraph.nodes[ResGraph.edges[i].to].name
                /\ VersionReq_parse(d.req) = Some(ResGraph.edges[i].weight.version_req)
        /\ \A name \in Names :
            PeerOnly(ResGraph, name) =>
                \A n \in DOMAIN ResGraph.nodes : ResGraph.nodes[n].name # name

\* a graph with an edge whose source also names its target as a peer, and a
\* package that is named as a peer only
C10_Witness ==
    /\ IsOk
    /\ \E i \in DOMAIN ResGraph.edges :
        \E d \in Range(PeersOf(ResGraph.nodes[ResGraph.edges[i].from].name)) :
            d.name = ResGraph.nodes[ResGraph.edges[i].to].name
    /\ \E name \in Names : PeerOnly(ResGraph, name)

(***************************************************************************)
(* Claims on peer validation                                               *)
(***************************************************************************)
GraphNodes == Range(dg.nodes)

\* the peer table the registry publishes for a node's version
PeerTable(node) ==
    unwrap_or(Unwrap(map_get(Unwrap(fetch_metadata(registry, node.name)).versions,
                             Version_to_string(node.version))).peer_dependencies, <<>>)

Warned(kind, node, peer) ==
    \E i \in DOMAIN gret.warnings :
        /\ gret.warnings[i].kind = kind
        /\ gret.warnings[i].package = node.name
        /\ gret.warnings[i].peer_name = peer.name
        /\ gret.warnings[i].peer_version_req = peer.req

\* a version satisfies a requirement text when the text parses to a
\* requirement that matches it
SatisfiesText(text, version) ==
    /\ VersionReq_parse(text) # None
    /\ matches(Unwrap(VersionReq_parse(text)), version)

PeersChecked == gret.op = "validate_peer_dependencies"

\* C11: validate_peer_dependencies returns Ok; for every non-workspace node
\* and every peer it declares there is an 'Unmet peer dependency' warning
\* iff no node of the graph has the peer's name, and a 'Peer dependency
\* mismatch' warning iff a node of that name is in the graph with a version
\* that does not satisfy the requirement; every warning is about a peer of a
\* non-workspace node.
C11_PeerWarnings ==
    PeersChecked =>
        /\ gret.ok
        /\ \A node \in GraphNodes :
              ~is_file_url(node.resolved_url) =>
                 \A k \in DOMAIN PeerTable(node) :
                    LET peer == PeerTable(node)[k]
                    IN  /\ Warned("Unmet peer dependency", node, peer)
                            <=> ~\E m \in GraphNodes : m.name = peer.name
                        /\ Warned("Peer dependency mismatch", node, peer)
                            <=> \E m \in GraphNodes :
                                    /\ m.name = peer.name
                                    /\ ~SatisfiesText(peer.req, m.version)
        /\ \A i \in DOMAIN gret.warnings :
              \E node \in GraphNodes :
                 /\ ~is_file_url(node.resolved_url)
                 /\ node.name = gret.warnings[i].package
                 /\ \E k \in DOMAIN PeerTable(node) :
                       PeerTable(node)[k].name = gret.warnings[i].peer_name

(***************************************************************************)
(* Claims on the dependency graph                                          *)
(***************************************************************************)
\* the positions of the nodes of a graph that carry an id
NodesWithId(graph, id) == {i \in DOMAIN graph.nodes : graph.nodes[i].id = id}

HasNode(graph, id) == NodesWithId(graph, id) # {}

\* C12: the graph holds exactly one node per id that add_package was called
\* with, package_count is the number of those ids, and add_package with an
\* id that is already present returns the index of the existing node and
\* leaves the nodes, the stored node and the edges as they were.
C12_OneNodePerId ==
    /\ package_count(dg) = Cardinality(added)
    /\ \A id \in added : Cardinality(NodesWithId(dg, id)) = 1
    /\ \A i \in DOMAIN dg.nodes : dg.nodes[i].id \in added
    /\ (gret.op = "add_package" /\ HasNode(gret.before, gret.package.id)) =>
          /\ NodesWithId(gret.before, gret.package.id) = {gret.index}
          /\ dg.nodes = gret.before.nodes
          /\ dg.edges = gret.before.edges
          /\ package_count(dg) = package_count(gret.before)

\* add_package was called with a node whose id is present with other
\* contents, in a graph that has edges
C12_Witness ==
    /\ gret.op = "add_package"
    /\ HasNode(gret.before, gret.package.id)
    /\ gret.before.nodes[gret.index] # gret.package
    /\ dg.edges # <<>>

\* C13: add_dependency fails with 'Package not found' whenever an endpoint
\* is not a node of the graph, and then the nodes and the edges are
\* unchanged; with both endpoints present it succeeds, appends exactly one
\* edge from -> to and changes no node.
C13_AddDependency ==
    gret.op = "add_dependency" =>
        IF HasNode(gret.before, gret.from) /\ HasNode(gret.before, gret.to)
        THEN /\ gret.ok
             /\ dg.nodes = gret.before.nodes
             /\ dependency_count(dg) = dependency_count(gret.before) + 1
             /\ SubSeq(dg.edges, 1, Len(gret.before.edges)) = gret.before.edges
             /\ dg.nodes[dg.edges[Len(dg.edges)].from].id = gret.from
             /\ dg.nodes[dg.edges[Len(dg.edges)].to].id = gret.to
        ELSE /\ ~gret.ok
             /\ gret.msg[1] = "Package not found"
             /\ package_count(dg) = package_count(gret.before)
             /\ dependency_count(dg) = dependency_count(gret.before)
             /\ dg.nodes = gret.before.nodes
             /\ dg.edges = gret.before.edges

\* add_dependency failed on a graph that has nodes and edges
C13_Witness ==
    /\ gret.op = "add_dependency"
    /\ ~gret.ok
    /\ HasNode(gret.before, gret.from)
    /\ dg.edges # <<>>

\* an edge of the graph joins the nodes with these ids
HasEdge(graph, from_id, to_id) ==
    \E i \in DOMAIN graph.edges :
        /\ graph.nodes[graph.edges[i].from].id = from_id
        /\ graph.nodes[graph.edges[i].to].id = to_id

\* C14: detect_cycles returns Ok with an empty list, validate_no_cycles
\* returns Ok and topological_sort returns Ok exactly on the graphs that
\* have no directed cycle.
C14_CycleQueriesAgree ==
    /\ gret.op = "detect_cycles" => ((gret.ok /\ gret.ids = <<>>) <=> Acyclic(dg))
    /\ gret.op = "validate_no_cycles" => (gret.ok <=> Acyclic(dg))
    /\ gret.op = "topological_sort" => (gret.ok <=> Acyclic(dg))

\* a cycle through all three nodes, none of them with an edge to itself, was
\* refused by topological_sort
C14_Witness ==
    /\ gret.op = "topological_sort"
    /\ ~gret.ok
    /\ package_count(dg) = MaxNodes
    /\ \A n \in DOMAIN dg.nodes : n \notin Successors(dg, n)

\* position of an id in the returned list
PositionOf(ids, id) == CHOOSE i \in DOMAIN ids : ids[i] = id

\* C15: a successful topological_sort returns every node of the graph once,
\* and for every edge u -> v it lists u before v.
C15_SortOrder ==
    (gret.op = "topological_sort" /\ gret.ok) =>
        /\ Len(gret.ids) = package_count(dg)
        /\ Range(gret.ids) = {dg.nodes[i].id : i \in DOMAIN dg.nodes}
        /\ \A i \in DOMAIN dg.edges :
              PositionOf(gret.ids, dg.nodes[dg.edges[i].from].id)
                 < PositionOf(gret.ids, dg.nodes[dg.edges[i].to].id)

\* three nodes were sorted along a chain of edges
C15_Witness ==
    /\ gret.op = "topological_sort"
    /\ gret.ok
    /\ package_count(dg) = MaxNodes
    /\ \E u, v, w \in DOMAIN dg.nodes :
          /\ u # v /\ v # w /\ u # w
          /\ v \in Successors(dg, u)
          /\ w \in Successors(dg, v)

\* C16: the path detect_cycles returns for a graph with a cycle is a cycle
\* of the graph: each id is joined to the next one by an edge and the last
\* id is the first one.
C16_CyclePathIsCycle ==
    (gret.op = "detect_cycles" /\ ~gret.ok) =>
        /\ Len(gret.ids) >= 2
        /\ gret.ids[Len(gret.ids)] = gret.ids[1]
        /\ \A i \in 1..(Len(gret.ids) - 1) : HasEdge(dg, gret.ids[i], gret.ids[i + 1])

\* the graph is the cycle a -> b -> c -> a and nothing else
OnlyCycleABC ==
    /\ {dg.nodes[i].name : i \in DOMAIN dg.nodes} = Names
    /\ {<<dg.nodes[dg.edges[i].from].name, dg.nodes[dg.edges[i].to].name>> :
            i \in DOMAIN dg.edges} = {<<"a", "b">>, <<"b", "c">>, <<"c", "a">>}

NextInCycle(name) == CASE name = "a" -> "b" [] name = "b" -> "c" [] name = "c" -> "a"

\* C17: for the graph whose only cycle is a -> b -> c -> a the message of
\* validate_no_cycles names each member once, in edge order, and then the
\* head once more.
C17_CycleMessage ==
    (gret.op = "validate_no_cycles" /\ OnlyCycleABC) =>
        /\ ~gret.ok
        /\ Len(gret.msg) = Cardinality(Names) + 1
        /\ gret.msg[Len(gret.msg)] = gret.msg[1]
        /\ \A i \in 1..Cardinality(Names) : gret.msg[i + 1] = NextInCycle(gret.msg[i])

(***************************************************************************)
(* Claims on garbage collection and on the index entry of a retrieval      *)
(***************************************************************************)
\* the keys whose entry was, when garbage_collect was called, older than
\* the threshold
OldKeys ==
    {k \in DOMAIN ret.indexBefore :
        ret.indexBefore[k].stored_at < gc_threshold(ret.days, ret.at)}

BlobPath(k) == hash_to_path(ret.indexBefore[k].hash)

\* bytes of the blobs of a set of keys, as they were before the call
RECURSIVE BlobBytes(_)
BlobBytes(keys) ==
    IF keys = {} THEN 0
    ELSE LET k == CHOOSE key \in keys : TRUE
         IN  (IF exists(ret.filesBefore, BlobPath(k)) THEN Len(ret.filesBefore[BlobPath(k)])
              ELSE 0) + BlobBytes(keys \ {k})

\* C18: garbage_collect removes every index entry older than the threshold
\* and its blob file, returns their number as entries_removed and the sum
\* of their blob sizes as freed_space.
C18_GarbageCollected ==
    ret.op = "garbage_collect" =>
        /\ \A k \in OldKeys :
              /\ k \notin DOMAIN index
              /\ ~exists(files, BlobPath(k))
        /\ ret.n = Cardinality(OldKeys)
        /\ ret.freed = BlobBytes(OldKeys)

\* C19: garbage_collect keeps every index entry that is not older than the
\* threshold and its blob with its bytes, and returns 0 and 0 when no entry
\* is older.
C19_FreshKept ==
    ret.op = "garbage_collect" =>
        /\ \A k \in (DOMAIN ret.indexBefore) \ OldKeys :
              /\ k \in DOMAIN index
              /\ index[k].hash = ret.indexBefore[k].hash
              /\ index[k].stored_at = ret.indexBefore[k].stored_at
              /\ exists(ret.filesBefore, BlobPath(k)) =>
                    /\ exists(files, BlobPath(k))
                    /\ files[BlobPath(k)] = ret.filesBefore[BlobPath(k)]
        /\ OldKeys = {} => (ret.n = 0 /\ ret.freed = 0)

\* garbage_collect ran on a store that held an entry older than the
\* threshold and one that was not, both with their blobs
C19_Witness ==
    /\ ret.op = "garbage_collect"
    /\ \E k \in OldKeys : exists(ret.filesBefore, BlobPath(k))
    /\ \E k \in (DOMAIN ret.indexBefore) \ OldKeys : exists(ret.filesBefore, BlobPath(k))

\* C20: after a get that returned bytes the index has an entry for the hash,
\* its last_accessed is the time of the call and its hash, size and
\* stored_at are what they were before.
C20_GetTouches ==
    (ret.op = "get" /\ ret.ok) =>
        /\ to_hex(ret.hash) \in DOMAIN index
        /\ index[to_hex(ret.hash)].last_accessed = ret.at
        /\ ret.before # None =>
              /\ index[to_hex(ret.hash)].hash = Unwrap(ret.before).hash
              /\ index[to_hex(ret.hash)].size = Unwrap(ret.before).size
              /\ index[to_hex(ret.hash)].stored_at = Unwrap(ret.before).stored_at

(***************************************************************************)
(* cas/index.rs: insert, remove and get called on one CasIndex from        *)
(* several threads.  insert and remove are one DashMap call each; get is   *)
(* two: entries.get (the entry is cloned and the copy touched), then, with *)
(* the reference dropped, entries.insert of the copy.                      *)
(***************************************************************************)
\* the sizes an inserted entry can have
IndexSizes == 0..1

\* the hashes whose keys the threads work on
IndexHashes == {compute_hash(SampleContents[i]) : i \in 1..2}

IndexLogOf(key) == IF key \in DOMAIN ilog THEN ilog[key] ELSE NoIndexLog

\* CasIndex::insert
IndexInsert(t, hash, size) ==
    LET entry == CacheEntry_new(hash, size, now)
    IN  /\ ithr[t].pc = "idle"
        /\ index' = CasIndex_insert(index, to_hex(hash), entry)
        /\ ilog' = CasIndex_insert(ilog, to_hex(hash),
                       [kind |-> "insert", entry |-> entry, stamps |-> {}])
        /\ UNCHANGED <<ithr, files, indexFile, now, ret, storedLog, writeCount>>

\* CasIndex::remove
IndexRemove(t, key) ==
    /\ ithr[t].pc = "idle"
    /\ index' = CasIndex_remove(index, key)
    /\ ilog' = CasIndex_insert(ilog, key, [NoIndexLog EXCEPT !.kind = "remove"])
    /\ UNCHANGED <<ithr, files, indexFile, now, ret, storedLog, writeCount>>

\* CasIndex::get, first half: entries.get(key), clone, touch, drop(entry_ref)
IndexGetRead(t, key) ==
    /\ ithr[t].pc = "idle"
    /\ key \in DOMAIN index
    /\ ithr' = [ithr EXCEPT ![t] = [pc |-> "write_back", key |-> key,
                                    entry |-> touch(index[key], now)]]
    /\ UNCHANGED <<ilog, files, index, indexFile, now, ret, storedLog, writeCount>>

\* CasIndex::get, second half: entries.insert(key, entry); Some(entry)
IndexGetWrite(t) ==
    /\ ithr[t].pc = "write_back"
    /\ index' = CasIndex_insert(index, ithr[t].key, ithr[t].entry)
    /\ ilog' = CasIndex_insert(ilog, ithr[t].key,
                   [IndexLogOf(ithr[t].key) EXCEPT
                       !.stamps = @ \cup {ithr[t].entry.last_accessed}])
    /\ ithr' = [ithr EXCEPT ![t] = NoIndexCall]
    /\ UNCHANGED <<files, indexFile, now, ret, storedLog, writeCount>>

IndexTick ==
    /\ Tick
    /\ UNCHANGED idxVars

IndexNext ==
    \/ \E t \in Threads, hash \in IndexHashes, size \in IndexSizes : IndexInsert(t, hash, size)
    \/ \E t \in Threads, hash \in IndexHashes : IndexRemove(t, to_hex(hash))
    \/ \E t \in Threads, hash \in IndexHashes : IndexGetRead(t, to_hex(hash))
    \/ \E t \in Threads : IndexGetWrite(t)
    \/ IndexTick

InitIndex == InitCas

SpecIndex ==
    /\ InitIndex
    /\ [][IndexNext /\ UNCHANGED <<thrVars, resVars, selVars, graphVars, metaVars, retryVars, verVars, tarVars, linkVars>>]_vars

(***************************************************************************)
(* Claims on the index under concurrent calls                              *)
(***************************************************************************)
\* C21: the touch of CasIndex::get is atomic per key: the entry of a key is
\* always what the callers' last insert or remove of that key left (never an
\* older copy written over a newer entry, never a removed entry put back),
\* and its last_accessed is the stamp of the insert or of one of the touches
\* made since.
C21_TouchAtomic ==
    \A key \in DOMAIN ilog :
        /\ ilog[key].kind = "remove" => key \notin DOMAIN index
        /\ ilog[key].kind = "insert" =>
              /\ key \in DOMAIN index
              /\ index[key].hash = ilog[key].entry.hash
              /\ index[key].size = ilog[key].entry.size
              /\ index[key].stored_at = ilog[key].entry.stored_at
              /\ index[key].last_accessed \in
                     ilog[key].stamps \cup {ilog[key].entry.last_accessed}

(***************************************************************************)
(* Claims on missing blobs and on the saved index                          *)
(***************************************************************************)
\* C22: get of a hash whose blob file is absent fails with IntegrityFailure
\* and verify of it returns Ok(false); neither changes a blob file or an
\* index entry.
C22_AbsentBlob ==
    /\ (ret.op = "get" /\ ~ret.existed) =>
          /\ ~ret.ok
          /\ ret.err = "IntegrityFailure"
          /\ files = ret.filesBefore
          /\ index = ret.indexBefore
    /\ (ret.op = "verify" /\ ~ret.existed) =>
          /\ ret.ok
          /\ ~ret.flag
          /\ files = ret.filesBefore
          /\ index = ret.indexBefore

\* get was called for an absent blob on a store that holds other blobs
C22_Witness ==
    /\ ret.op = "get"
    /\ ~ret.existed
    /\ ret.indexBefore # <<>>
    /\ ret.filesBefore # <<>>

\* the keys of the (key, entry) pairs index.json holds
SavedKeys == {p[1] : p \in Unwrap(indexFile)}

\* the pairs of index.json and the index in memory agree on the keys and,
\* per key, on hash, size and stored_at
SavedIsIndex ==
    /\ SavedKeys = DOMAIN index
    /\ \A p \in Unwrap(indexFile) :
          /\ p[2].hash = index[p[1]].hash
          /\ p[2].size = index[p[1]].size
          /\ p[2].stored_at = index[p[1]].stored_at

DefaultTtl == 3600

MetaNames == {"a", "b"}
MetaValues == {"m1", "m2"}
MetaTtls == 0..1

\* CacheEntry::with_ttl
CacheEntry_with_ttl(metadata, ttl, t) == [metadata |-> metadata, stored_at |-> t, ttl |-> ttl]

\* CacheEntry::new
MetaEntry_new(metadata, t) == CacheEntry_with_ttl(metadata, DefaultTtl, t)

\* CacheEntry::is_fresh: stored_at.elapsed() < ttl
is_fresh(entry, t) == (t - entry.stored_at) < entry.ttl

\* the entry of a name, if any
cache_get(c, name) == IF name \in DOMAIN c THEN Some(c[name]) ELSE None

\* DashMap insert
cache_insert(c, name, entry) == [k \in (DOMAIN c) \cup {name} |-> IF k = name THEN entry ELSE c[k]]

\* DashMap without the entries of some names
cache_without(c, names) == [k \in (DOMAIN c) \ names |-> c[k]]

\* the threads that hold a Ref to the entry of a name: they are inside get,
\* past `let entry = self.cache.get(name)?`
RefHolders(name) ==
    {t \in Threads : mthr[t].pc = "blocked" /\ mthr[t].op = "get" /\ mthr[t].name = name}

\* the names whose shard is read-locked
HeldNames == {name \in MetaNames : RefHolders(name) # {}}

\* the names of the stale entries
StaleNames(c, t) == {name \in DOMAIN c : ~is_fresh(c[name], t)}

\* a call that returned
MetaReturned(t, op, name, out, c) ==
    /\ mret' = [NoMret EXCEPT !.op = op, !.name = name, !.thread = t, !.returned = TRUE,
                             !.at = now, !.seen = cache_get(cache, name), !.out = out,
                             !.after = cache_get(c, name),
                             !.total = Cardinality(DOMAIN cache),
                             !.totalAfter = Cardinality(DOMAIN c)]
    /\ UNCHANGED mthr

\* a call that waits for a write lock
MetaBlocked(t, op, name, c) ==
    /\ mret' = [NoMret EXCEPT !.op = op, !.name = name, !.thread = t, !.returned = FALSE,
                             !.at = now, !.seen = cache_get(cache, name),
                             !.after = cache_get(c, name),
                             !.total = Cardinality(DOMAIN cache),
                             !.totalAfter = Cardinality(DOMAIN c)]
    /\ mthr' = [mthr EXCEPT ![t] = [pc |-> "blocked", op |-> op, name |-> name]]

\* MetadataCache::get.  `entry` is a Ref and lives to the end of the
\* function, so self.cache.remove(name) in the stale branch asks for the
\* write lock of the shard this thread holds the read lock of.
MetaGet(t, name) ==
    /\ mthr[t].pc = "idle"
    /\ IF name \notin DOMAIN cache
       THEN MetaReturned(t, "get", name, None, cache)
       ELSE IF is_fresh(cache[name], now)
            THEN MetaReturned(t, "get", name, Some(cache[name].metadata), cache)
            ELSE MetaBlocked(t, "get", name, cache)
    /\ UNCHANGED <<cache, mlog, now>>

\* the insert of an entry: DashMap::insert takes the write lock of the shard
MetaStore(t, op, name, entry) ==
    /\ mthr[t].pc = "idle"
    /\ IF RefHolders(name) = {}
       THEN /\ cache' = cache_insert(cache, name, entry)
            /\ mlog' = cache_insert(mlog, name, entry)
            /\ MetaReturned(t, op, name, None, cache_insert(cache, name, entry))
       ELSE /\ MetaBlocked(t, op, name, cache)
            /\ UNCHANGED <<cache, mlog>>
    /\ UNCHANGED now

\* MetadataCache::insert
MetaInsert(t, name, metadata) == MetaStore(t, "insert", name, MetaEntry_new(metadata, now))

\* MetadataCache::insert_with_ttl
MetaInsertWithTtl(t, name, metadata, ttl) ==
    MetaStore(t, "insert_with_ttl", name, CacheEntry_with_ttl(metadata, ttl, now))

\* retain over the shards: the entries of `doomed` go; a shard that is
\* read-locked stops the walk, and the shards walked before it are done
MetaRetain(t, op, doomed) ==
    /\ mthr[t].pc = "idle"
    /\ IF HeldNames = {}
       THEN /\ cache' = cache_without(cache, doomed)
            /\ mlog' = cache_without(mlog, doomed)
            /\ MetaReturned(t, op, "", None, cache_without(cache, doomed))
            /\ UNCHANGED now
       ELSE \E walked \in SUBSET (MetaNames \ HeldNames) :
               /\ cache' = cache_without(cache, doomed \cap walked)
               /\ mlog' = cache_without(mlog, doomed \cap walked)
               /\ MetaBlocked(t, op, "", cache_without(cache, doomed \cap walked))
               /\ UNCHANGED now

\* MetadataCache::clear
MetaClear(t) == MetaRetain(t, "clear", DOMAIN cache)

\* MetadataCache::cleanup
MetaCleanup(t) == MetaRetain(t, "cleanup", StaleNames(cache, now))

\* SystemTime::now advances
MetaTick ==
    /\ now < MaxTime
    /\ now' = now + 1
    /\ UNCHANGED metaVars

MetaNext ==
    \/ \E t \in Threads, name \in MetaNames : MetaGet(t, name)
    \/ \E t \in Threads, name \in MetaNames, metadata \in MetaValues : MetaInsert(t, name, metadata)
    \/ \E t \in Threads, name \in MetaNames, metadata \in MetaValues, ttl \in MetaTtls : MetaInsertWithTtl(t, name, metadata, ttl)
    \/ \E t \in Threads : MetaClear(t)
    \/ \E t \in Threads : MetaCleanup(t)
    \/ MetaTick

InitMeta == InitCas

SpecMeta ==
    /\ InitMeta
    /\ [][MetaNext /\ UNCHANGED <<files, index, indexFile, ret, storedLog, writeCount, thrVars, resVars, selVars, graphVars, idxVars, retryVars, verVars, tarVars, linkVars>>]_vars

(***************************************************************************)
(* Claims on the metadata cache                                            *)
(***************************************************************************)
\* the age, at the last call, of the entry that call found
SeenAge == mret.at - Unwrap(mret.seen).stored_at

\* C24: get returns the stored metadata iff an entry for the name exists
\* and its age does not exceed its ttl (one hour for insert); a hit returns
\* the metadata of that entry and leaves the entry as it was.
C24_GetFresh ==
    /\ mret.op = "get" =>
          /\ (mret.returned /\ mret.out # None) <=>
                (mret.seen # None /\ SeenAge <= Unwrap(mret.seen).ttl)
          /\ mret.out # None =>
                /\ mret.out = Some(Unwrap(mret.seen).metadata)
                /\ mret.after = mret.seen
    /\ (mret.op = "insert" /\ mret.returned) =>
          /\ mret.after # None
          /\ Unwrap(mret.after).ttl = DefaultTtl
          /\ Unwrap(mret.after).stored_at = mret.at

\* C25: get on an entry whose age exceeds its ttl completes, returns None
\* and leaves no entry for the name: the cache has one entry less.
C25_StaleGetRemoves ==
    (mret.op = "get" /\ mret.seen # None /\ SeenAge > Unwrap(mret.seen).ttl) =>
        /\ mret.returned
        /\ mret.out = None
        /\ mret.after = None
        /\ mret.totalAfter = mret.total - 1

\* C26: get and insert on one name are safe together: no insert waits on a
\* get, and the entry of a completed insert stays in the cache while its ttl
\* has not expired, unless a later insert, clear or cleanup replaced or
\* dropped it.
C26_ConcurrentGetInsert ==
    /\ \A t \in Threads :
          ~(mthr[t].pc = "blocked" /\ mthr[t].op \in {"insert", "insert_with_ttl"})
    /\ \A name \in DOMAIN mlog :
          is_fresh(mlog[name], now) =>
              /\ name \in DOMAIN cache
              /\ cache[name] = mlog[name]

(***************************************************************************)
(* pea-registry client/mod.rs: one with_retry call at a time, one await    *)
(* per step.  What the operation returns is the environment's choice.      *)
(***************************************************************************)
\* RetryConfig::default, delays in milliseconds
InitialDelay == 100
MaxDelay == 10000
Multiplier == 2

\* what operation().await can return: Ok, or an error
OkOutcome == [kind |-> "Ok", message |-> ""]
Outcomes ==
    {OkOutcome,
     [kind |-> "Network", message |-> "status 500"],
     [kind |-> "Network", message |-> "status 503"],
     [kind |-> "PackageNotFound", message |-> ""],
     [kind |-> "PermissionDenied", message |-> ""]}

\* mutant: no attempt counts as the final one
is_final_attempt_never(attempt, max_retries) == FALSE

\* if attempt == self.retry_config.max_retries { break; }
is_final_attempt(attempt, max_retries) == attempt = max_retries

\* PeaError::PackageNotFound { .. } => break, PeaError::PermissionDenied { .. } => break
is_fatal(error) == error.kind \in {"PackageNotFound", "PermissionDenied"}

\* delay = min(Duration::from_millis((delay.as_millis() as f64 * multiplier) as u64), max_delay)
next_delay(delay) == Min(delay * Multiplier, MaxDelay)

\* Err(last_error.unwrap_or_else(|| PeaError::Network { .. }))
retry_failed(last_error) ==
    IF last_error = None
    THEN Some([kind |-> "Network", message |-> "Retry operation failed without error"])
    ELSE last_error

\* with_retry is called: let mut delay = initial_delay; let mut last_error = None
RetryCall(max_retries) ==
    /\ retry.pc \in {"idle", "done"}
    /\ retry' = [NoRetry EXCEPT !.pc = "attempt", !.max_retries = max_retries,
                                !.delay = InitialDelay]

\* match operation().await
RetryAttempt(outcome) ==
    /\ retry.pc = "attempt"
    /\ retry' =
          IF outcome = OkOutcome
          THEN [retry EXCEPT !.pc = "done", !.log = Append(@, outcome),
                             !.result = Some(outcome)]
          ELSE IF is_final_attempt(retry.attempt, retry.max_retries) \/ is_fatal(outcome)
               THEN [retry EXCEPT !.pc = "done", !.log = Append(@, outcome),
                                  !.last_error = Some(outcome),
                                  !.result = retry_failed(Some(outcome))]
               ELSE [retry EXCEPT !.pc = "sleep", !.log = Append(@, outcome),
                                  !.last_error = Some(outcome)]

\* tokio::time::sleep(delay).await, the backoff, and the next round of the
\* loop over 0..=max_retries
RetrySleep ==
    /\ retry.pc = "sleep"
    /\ retry' =
          IF retry.attempt + 1 > retry.max_retries
          THEN [retry EXCEPT !.pc = "done", !.slept = Append(@, retry.delay),
                             !.delay = next_delay(@),
                             !.result = retry_failed(retry.last_error)]
          ELSE [retry EXCEPT !.pc = "attempt", !.slept = Append(@, retry.delay),
                             !.delay = next_delay(@), !.attempt = @ + 1]

RetryNext ==
    \/ \E max_retries \in 0..MaxRetries : RetryCall(max_retries)
    \/ \E outcome \in Outcomes : RetryAttempt(outcome)
    \/ RetrySleep

InitRetry == InitCas

SpecRetry ==
    /\ InitRetry
    /\ [][RetryNext /\ UNCHANGED <<casVars, thrVars, resVars, selVars, graphVars, idxVars, metaVars, verVars, tarVars, linkVars>>]_vars

(***************************************************************************)
(* Claims on with_retry                                                    *)
(***************************************************************************)
\* an attempt after which with_retry tries again
Retryable(outcome) == outcome # OkOutcome /\ ~is_fatal(outcome)

\* C27: with_retry calls the operation at most max_retries + 1 times, goes
\* on only after a failure other than PackageNotFound and PermissionDenied,
\* returns the first success, or the error of the attempt it stopped at, and
\* never sleeps after its last attempt.
C27_RetryBounded ==
    /\ Len(retry.log) <= retry.max_retries + 1
    /\ \A i \in 1..(Len(retry.log) - 1) : Retryable(retry.log[i])
    /\ Len(retry.slept) <= retry.max_retries
    /\ retry.pc = "sleep" => Len(retry.slept) = Len(retry.log) - 1
    /\ retry.pc = "done" =>
          /\ retry.log # <<>>
          /\ Len(retry.slept) = Len(retry.log) - 1
          /\ retry.result = Some(retry.log[Len(retry.log)])
          /\ Retryable(retry.log[Len(retry.log)]) => Len(retry.log) = retry.max_retries + 1

\* every attempt of a call with at least two retries failed, the last one
\* with another error than the first
C27_Witness ==
    /\ retry.pc = "done"
    /\ retry.max_retries >= 2
    /\ Len(retry.log) = retry.max_retries + 1
    /\ retry.log[1] # retry.log[Len(retry.log)]
    /\ Retryable(retry.log[Len(retry.log)])

(***************************************************************************)
(* types/version.rs: checks on Version values.  The values are drawn when  *)
(* the check starts; each step applies one function of version.rs to them. *)
(***************************************************************************)
\* the numeric triples 0.0.0 .. MaxNum.MaxNum.MaxNum
Triples ==
    {Version_new(major, minor, patch) : major \in 0..MaxNum, minor \in 0..MaxNum,
                                        patch \in 0..MaxNum}

\* the versions that are compared: with and without prerelease and build
OrderVersions ==
    {[t EXCEPT !.prerelease = pre, !.build = build] :
        t \in Triples,
        pre \in {None, Some(<<"a">>), Some(<<"a", "1">>), Some(<<"b">>)},
        build \in {None, Some(<<"x">>)}}

\* a.cmp(b) for each pair of the three versions
Compare ==
    /\ vret.op = "none"
    /\ vret' = [NoVret EXCEPT !.op = "cmp",
                              !.ab = precedence_cmp(ver.a, ver.b),
                              !.ba = precedence_cmp(ver.b, ver.a),
                              !.bc = precedence_cmp(ver.b, ver.c),
                              !.cb = precedence_cmp(ver.c, ver.b),
                              !.ac = precedence_cmp(ver.a, ver.c),
                              !.ca = precedence_cmp(ver.c, ver.a)]
    /\ UNCHANGED ver

OtherVars == <<casVars, thrVars, resVars, selVars, graphVars, idxVars, metaVars, retryVars, tarVars, linkVars>>

InitOrder ==
    /\ CasInit
    /\ ThreadInit
    /\ ResolverInit
    /\ registry = SampleRegistries[1]
    /\ sel = NoSel
    /\ GraphInit
    /\ IndexInit
    /\ MetaInit
    /\ RetryInit
    /\ TarInit
    /\ LinkInit
    /\ ver \in [a : OrderVersions, b : OrderVersions, c : OrderVersions]
    /\ vret = NoVret

OrderNext == Compare

SpecOrder ==
    /\ InitOrder
    /\ [][OrderNext /\ UNCHANGED OtherVars]_vars

\* s is before t in the byte order of str: at the first difference, or as a proper prefix
LexLess(s, t) ==
    \E k \in 0..Len(s) :
        /\ k <= Len(t)
        /\ SubSeq(s, 1, k) = SubSeq(t, 1, k)
        /\ \/ k = Len(s) /\ k < Len(t)
           \/ k < Len(s) /\ k < Len(t) /\ CharCode(s[k + 1]) < CharCode(t[k + 1])

\* (major, minor, patch) of x is lexicographically before that of y
TripleLess(x, y) ==
    \/ x.major < y.major
    \/ x.major = y.major /\ x.minor < y.minor
    \/ x.major = y.major /\ x.minor = y.minor /\ x.patch < y.patch

SameTriple(x, y) == x.major = y.major /\ x.minor = y.minor /\ x.patch = y.patch

\* what the order of x and y has to be, given xy = x.cmp(y) and yx = y.cmp(x)
OrderedPair(x, y, xy, yx) ==
    /\ xy = 0 - yx
    /\ (xy = 0) <=> (SameTriple(x, y) /\ x.prerelease = y.prerelease)
    /\ TripleLess(x, y) => xy < 0
    /\ (SameTriple(x, y) /\ x.prerelease = None /\ y.prerelease # None) => xy > 0
    /\ (SameTriple(x, y) /\ x.prerelease # None /\ y.prerelease # None
            /\ LexLess(Unwrap(x.prerelease), Unwrap(y.prerelease))) => xy < 0

\* C28: the comparison of versions is a total order on (major, minor, patch,
\* prerelease) that ignores build: antisymmetric, transitive, lexicographic on
\* the triple; with equal triples a release is above every prerelease and two
\* prereleases compare as their texts do
C28_TotalOrder ==
    vret.op = "cmp" =>
        /\ OrderedPair(ver.a, ver.b, vret.ab, vret.ba)
        /\ OrderedPair(ver.b, ver.c, vret.bc, vret.cb)
        /\ OrderedPair(ver.a, ver.c, vret.ac, vret.ca)
        /\ (vret.ab <= 0 /\ vret.bc <= 0) => vret.ac <= 0
        /\ (vret.ab < 0 /\ vret.bc <= 0) => vret.ac < 0
        /\ (vret.ab <= 0 /\ vret.bc < 0) => (vret.ac < 0 /\ vret.ca > 0)

\* 1.0.0-a < 1.0.0-a1+x < 1.0.0 was compared, and 1.0.0+x against 1.0.0 would be equal
C28_Witness ==
    /\ vret.op = "cmp"
    /\ SameTriple(ver.a, ver.b) /\ SameTriple(ver.b, ver.c)
    /\ ver.a.prerelease = Some(<<"a">>)
    /\ ver.b.prerelease = Some(<<"a", "1">>) /\ ver.b.build # None
    /\ ver.c.prerelease = None /\ ver.c.build = None
    /\ vret.ab < 0 /\ vret.bc < 0 /\ vret.ac < 0

(***************************************************************************)
(* VersionReq::parse("^M.m.p") and VersionReq::matches: ver.b is the       *)
(* triple M.m.p the requirement is written from, ver.c the version asked.  *)
(***************************************************************************)
\* the text "^M.m.p"
CaretText(base) == <<"^">> \o Version_to_string(base)

\* VersionReq::parse(text).matches(version); false when the text does not parse
req_matches(req, version) == req # None /\ matches(Unwrap(req), version)

MatchCaret ==
    /\ vret.op = "none"
    /\ vret' = [NoVret EXCEPT !.op = "caret",
                              !.text = CaretText(ver.b),
                              !.req = VersionReq_parse(CaretText(ver.b)),
                              !.matched = req_matches(VersionReq_parse(CaretText(ver.b)), ver.c)]
    /\ UNCHANGED ver

InitCaret ==
    /\ CasInit
    /\ ThreadInit
    /\ ResolverInit
    /\ registry = SampleRegistries[1]
    /\ sel = NoSel
    /\ GraphInit
    /\ IndexInit
    /\ MetaInit
    /\ RetryInit
    /\ TarInit
    /\ LinkInit
    /\ ver \in [a : {NoVer.a}, b : Triples, c : OrderVersions]
    /\ vret = NoVret

CaretNext == MatchCaret

SpecCaret ==
    /\ InitCaret
    /\ [][CaretNext /\ UNCHANGED OtherVars]_vars

\* C29: ^M.m.p matches every version of major M that is at least M.m.p and has
\* no prerelease, and matches no version of another major
C29_CaretMatches ==
    vret.op = "caret" =>
        /\ vret.req # None
        /\ (ver.c.major = ver.b.major /\ ~TripleLess(ver.c, ver.b) /\ ver.c.prerelease = None)
                => vret.matched
        /\ ver.c.major # ver.b.major => ~vret.matched

\* ^1.0.1 was asked about 1.1.0+x, a later minor of the same major, and matched
C29_Witness ==
    /\ vret.op = "caret"
    /\ vret.text = <<"^", "1", ".", "0", ".", "1">>
    /\ ver.c = [Version_new(1, 1, 0) EXCEPT !.build = Some(<<"x">>)]
    /\ vret.matched

(***************************************************************************)
(* Display for Version followed by Version::from_str, on ver.a.            *)
(***************************************************************************)
\* the characters of the prerelease and build texts: a letter, a digit, '.' and '-'
TextChars == {"a", "1", ".", "-"}

\* the texts of up to MaxText characters
Texts == UNION {[1..n -> TextChars] : n \in 0..MaxText}

\* one-digit and two-digit numbers
TextNums == (0..MaxNum) \cup {10}

TextVersions ==
    {[major |-> major, minor |-> minor, patch |-> patch, prerelease |-> pre, build |-> build] :
        major \in TextNums, minor \in TextNums, patch \in TextNums,
        pre \in {None} \cup {Some(t) : t \in Texts},
        build \in {None} \cup {Some(t) : t \in Texts}}

\* Version::from_str(&v.to_string())
RoundTrip ==
    /\ vret.op = "none"
    /\ vret' = [NoVret EXCEPT !.op = "round_trip",
                              !.text = Version_to_string(ver.a),
                              !.parsed = Version_from_str(Version_to_string(ver.a))]
    /\ UNCHANGED ver

InitText ==
    /\ CasInit
    /\ ThreadInit
    /\ ResolverInit
    /\ registry = SampleRegistries[1]
    /\ sel = NoSel
    /\ GraphInit
    /\ IndexInit
    /\ MetaInit
    /\ RetryInit
    /\ TarInit
    /\ LinkInit
    /\ ver \in [a : TextVersions, b : {NoVer.b}, c : {NoVer.c}]
    /\ vret = NoVret

TextNext == RoundTrip

SpecText ==
    /\ InitText
    /\ [][TextNext /\ UNCHANGED OtherVars]_vars

\* C30: parsing the display form of a version gives back its major, minor,
\* patch, prerelease and build
C30_RoundTrip ==
    vret.op = "round_trip" =>
        /\ vret.parsed # None
        /\ Unwrap(vret.parsed).major = ver.a.major
        /\ Unwrap(vret.parsed).minor = ver.a.minor
        /\ Unwrap(vret.parsed).patch = ver.a.patch
        /\ Unwrap(vret.parsed).prerelease = ver.a.prerelease
        /\ Unwrap(vret.parsed).build = ver.a.build

\* 10.0.1 with prerelease "-a" and build "1-" was printed as 10.0.1--a+1- and read back
C30_Witness ==
    /\ vret.op = "round_trip"
    /\ vret.text = <<"1", "0", ".", "0", ".", "1", "-", "-", "a", "+", "1", "-">>
    /\ ver.a.prerelease = Some(<<"-", "a">>)
    /\ ver.a.build = Some(<<"1", "-">>)
    /\ vret.parsed = Some(ver.a)

(***************************************************************************)
(* VersionReq::parse("~M.m.p") and VersionReq::matches: ver.b is the       *)
(* triple M.m.p the requirement is written from, ver.c the version asked.  *)
(***************************************************************************)
\* the text "~M.m.p"
TildeText(base) == <<"~">> \o Version_to_string(base)

MatchTilde ==
    /\ vret.op = "none"
    /\ vret' = [NoVret EXCEPT !.op = "tilde",
                              !.text = TildeText(ver.b),
                              !.req = VersionReq_parse(TildeText(ver.b)),
                              !.matched = req_matches(VersionReq_parse(TildeText(ver.b)), ver.c)]
    /\ UNCHANGED ver

InitTilde == InitCaret

TildeNext == MatchTilde

SpecTilde ==
    /\ InitTilde
    /\ [][TildeNext /\ UNCHANGED OtherVars]_vars

\* M.(m+1).0, the first version above the range of ~M.m.p
NextMinor(base) == Version_new(base.major, base.minor + 1, 0)

\* C36: ~M.m.p matches v exactly when M.m.p <= v < M.(m+1).0 in the version
\* order, also for a v that carries a prerelease
C36_TildeRange ==
    vret.op = "tilde" =>
        /\ vret.req # None
        /\ vret.matched <=> /\ precedence_cmp(ver.b, ver.c) <= 0
                            /\ precedence_cmp(ver.c, NextMinor(ver.b)) < 0

\* the same statement for the versions without a prerelease
C36_TildeRangeReleases ==
    (vret.op = "tilde" /\ ver.c.prerelease = None) =>
        /\ vret.req # None
        /\ vret.matched <=> /\ precedence_cmp(ver.b, ver.c) <= 0
                            /\ precedence_cmp(ver.c, NextMinor(ver.b)) < 0

(***************************************************************************)
(* cas/store.rs: remove_entries called directly (it is a pub fn), among    *)
(* store and garbage_collect calls, all at one time of the clock.          *)
(***************************************************************************)
\* remove_entries is called while no blob file was written more than MaxRewrites times
MaxRewrites == 1

\* the keys remove_entries is called with: up to two keys, in the index or not
KeyLists == SeqsUpTo({to_hex(h) : h \in Hashes}, 2)

\* CasStore::remove_entries
RemoveEntries(keys) ==
    LET r == remove_entries(files, index, keys, now)
    IN  /\ \A p \in DOMAIN writeCount : writeCount[p] <= MaxRewrites
        /\ files' = r.fs
        /\ index' = r.idx
        /\ ret' = [NoRet EXCEPT !.op = "remove_entries", !.keys = keys,
                                !.freed = r.freed, !.indexBefore = index,
                                !.filesBefore = files, !.at = now]
        /\ UNCHANGED <<indexFile, now, storedLog, writeCount>>

RemoveNext ==
    \/ \E content \in Contents : Store(content)
    \/ \E keys \in KeyLists : RemoveEntries(keys)
    \/ \E days \in 0..1 : GarbageCollect(days)

InitRemove == InitCas

SpecRemove ==
    /\ InitRemove
    /\ [][RemoveNext /\ UNCHANGED <<thrVars, resVars, selVars, graphVars, idxVars, metaVars, retryVars, verVars, tarVars, linkVars>>]_vars

\* the keys of the last remove_entries call that were in the index
KnownKeys == {ret.keys[i] : i \in 1..Len(ret.keys)} \cap DOMAIN ret.indexBefore

\* the blob files of KnownKeys that existed before the call
RemovedPaths ==
    {hash_to_path(ret.indexBefore[key].hash) : key \in KnownKeys} \cap DOMAIN ret.filesBefore

RECURSIVE TotalLen(_, _)
TotalLen(fs, paths) ==
    IF paths = {} THEN 0
    ELSE LET p == CHOOSE q \in paths : TRUE
         IN  Len(fs[p]) + TotalLen(fs, paths \ {p})

\* every entry of the index has its blob file
EntriesHaveBlobs == \A key \in DOMAIN index : exists(files, hash_to_path(index[key].hash))

\* C37: remove_entries removes the blob file and the index entry of every key
\* that is in the index, returns the total size of the removed files and skips
\* the other keys; after it and after garbage_collect every index entry still
\* has its blob file
C37_RemoveEntries ==
    /\ ret.op = "remove_entries" =>
        /\ \A key \in KnownKeys :
              /\ key \notin DOMAIN index
              /\ ~exists(files, hash_to_path(ret.indexBefore[key].hash))
        /\ ret.freed = TotalLen(ret.filesBefore, RemovedPaths)
        /\ \A key \in (DOMAIN ret.indexBefore) \ KnownKeys : key \in DOMAIN index
        /\ EntriesHaveBlobs
    /\ ret.op = "garbage_collect" => EntriesHaveBlobs

\* what remove_entries does do: the files of the known keys are gone, the
\* other files stay, the freed size is that of the removed files
C37_FilesRemoved ==
    ret.op = "remove_entries" =>
        /\ DOMAIN files = (DOMAIN ret.filesBefore) \ RemovedPaths
        /\ \A p \in DOMAIN files : files[p] = ret.filesBefore[p]
        /\ ret.freed = TotalLen(ret.filesBefore, RemovedPaths)

\* C38: after a store(B) that returned H the index has an entry under hex(H)
\* with hash H and size len(B), also when the blob file existed before the call
C38_StoreIndexes ==
    ret.op = "store" =>
        /\ to_hex(ret.hash) \in DOMAIN index
        /\ index[to_hex(ret.hash)].hash = ret.hash
        /\ index[to_hex(ret.hash)].size = Len(ret.data)

\* the same statement for the calls that wrote the blob file
C38_FreshStoreIndexes ==
    (ret.op = "store" /\ ~ret.existed) =>
        /\ to_hex(ret.hash) \in DOMAIN index
        /\ index[to_hex(ret.hash)].hash = ret.hash
        /\ index[to_hex(ret.hash)].size = Len(ret.data)

(***************************************************************************)
(* sat/mod.rs: resolve on root lists that may name a package several       *)
(* times and that list a package after its dependencies.                   *)
(***************************************************************************)
\* root lists of SpecEdges have up to MaxEdgeRoots entries
MaxEdgeRoots == 3

EdgeRootLists == SeqsUpTo({Dep("a", Star), Dep("b", Star), Dep("c", Star)}, MaxEdgeRoots)

EdgesNext ==
    \/ \E root_dependencies \in EdgeRootLists : Resolve(root_dependencies, <<>>)
    \/ NewResolver

InitEdges == InitResolve

SpecEdges ==
    /\ InitEdges
    /\ [][EdgesNext]_vars

\* the edges leaving node n of the returned graph
EdgesFrom(n) == {i \in DOMAIN ResGraph.edges : ResGraph.edges[i].from = n}

RECURSIVE DeclaredCount(_)
DeclaredCount(nodeset) ==
    IF nodeset = {} THEN 0
    ELSE LET n == CHOOSE m \in nodeset : TRUE
         IN  Len(DepsOf(ResGraph.nodes[n].name)) + DeclaredCount(nodeset \ {n})

\* C39: in a returned graph the number of edges leaving a node is the number
\* of entries of that package's dependency table, also when the package is
\* reached several times; dependency_count is the number of declarations
C39_EdgesOnce ==
    IsOk =>
        /\ \A n \in DOMAIN ResGraph.nodes :
              Cardinality(EdgesFrom(n)) = Len(DepsOf(ResGraph.nodes[n].name))
        /\ dependency_count(ResGraph) = DeclaredCount(DOMAIN ResGraph.nodes)

\* the same statement for the calls with two roots of different names
C39_EdgesOnceTwoRoots ==
    (IsOk /\ Len(res.roots) = 2 /\ res.roots[1].name # res.roots[2].name) =>
        \A n \in DOMAIN ResGraph.nodes :
              Cardinality(EdgesFrom(n)) = Len(DepsOf(ResGraph.nodes[n].name))

(***************************************************************************)
(* tarball/extract.rs on a POSIX build.  A path is the sequence of its     *)
(* components; "/" is the root component, ".." the parent, "." the current *)
(* directory.  The tree maps the real path of every file, directory and    *)
(* link to its node; the operating system follows links when it walks a    *)
(* path.                                                                   *)
(***************************************************************************)
\* an archive has up to MaxEntries entries
MaxEntries == 3

\* links followed while one path is walked (ELOOP beyond)
MaxLinkHops == 2

\* Path::starts_with: whole components, nothing is resolved
path_starts_with(path, base) ==
    Len(base) <= Len(path) /\ SubSeq(path, 1, Len(base)) = base

\* Path::parent
path_parent(path) == IF path = <<>> THEN <<>> ELSE SubSeq(path, 1, Len(path) - 1)

\* Path::is_absolute
is_absolute(path) == path # <<>> /\ path[1] = "/"

is_dir_at(fs, real) == real = <<>> \/ (real \in DOMAIN fs /\ fs[real].kind = "dir")

tree_put(fs, real, node) == [p \in (DOMAIN fs) \cup {real} |-> IF p = real THEN node ELSE fs[p]]

IoFailed(fs) == [ok |-> FALSE, fs |-> fs, at |-> <<>>, made |-> {}]

\* the walk the operating system makes from directory cur along the
\* components rest; with create, a missing directory is made on the way
\* (fs::create_dir_all), otherwise every component has to exist
RECURSIVE walk_dirs(_, _, _, _, _, _)
walk_dirs(fs, cur, rest, hops, create, made) ==
    IF rest = <<>> THEN [ok |-> TRUE, fs |-> fs, at |-> cur, made |-> made]
    ELSE LET c == Head(rest)
             next == Append(cur, c)
         IN  IF c = "." THEN walk_dirs(fs, cur, Tail(rest), hops, create, made)
             ELSE IF c = ".." THEN walk_dirs(fs, path_parent(cur), Tail(rest), hops, create, made)
             ELSE IF c = "/" THEN walk_dirs(fs, <<>>, Tail(rest), hops, create, made)
             ELSE IF next \notin DOMAIN fs
                  THEN IF create
                       THEN walk_dirs(tree_put(fs, next, DirNode), next, Tail(rest), hops,
                                      create, made \cup {next})
                       ELSE IoFailed(fs)
             ELSE IF fs[next].kind = "dir"
                  THEN walk_dirs(fs, next, Tail(rest), hops, create, made)
             ELSE IF fs[next].kind = "file" THEN IoFailed(fs)
             ELSE IF hops = 0 THEN IoFailed(fs)
             ELSE LET r == walk_dirs(fs, cur, fs[next].target, hops - 1, FALSE, {})
                  IN  IF ~r.ok THEN IoFailed(fs)
                      ELSE walk_dirs(fs, r.at, Tail(rest), hops - 1, create, made)

\* fs::create_dir_all(path)
create_dir_all(fs, path) == walk_dirs(fs, <<>>, path, MaxLinkHops, TRUE, {})

\* fs::File::create(path) + io::copy: the file is created or truncated where
\* the path leads; a link in the last component is followed
RECURSIVE file_create_from(_, _, _, _)
file_create_from(fs, cur, path, hops) ==
    IF path = <<>> \/ path[Len(path)] \in {".", "..", "/"} THEN IoFailed(fs)
    ELSE LET r == walk_dirs(fs, cur, path_parent(path), hops, FALSE, {})
             real == Append(r.at, path[Len(path)])
         IN  IF ~r.ok THEN IoFailed(fs)
             ELSE IF real \notin DOMAIN fs \/ fs[real].kind = "file"
                  THEN [ok |-> TRUE, fs |-> tree_put(fs, real, FileNode), at |-> real,
                        made |-> {real}]
             ELSE IF fs[real].kind = "dir" THEN IoFailed(fs)
             ELSE IF hops = 0 THEN IoFailed(fs)
             ELSE file_create_from(fs, r.at, fs[real].target, hops - 1)

file_create(fs, path) == file_create_from(fs, <<>>, path, MaxLinkHops)

\* std::os::unix::fs::symlink(target, path): fails when the path exists
symlink(fs, target, path) ==
    LET r == walk_dirs(fs, <<>>, path_parent(path), MaxLinkHops, FALSE, {})
        real == Append(r.at, path[Len(path)])
    IN  IF ~r.ok \/ real \in DOMAIN fs THEN IoFailed(fs)
        ELSE [ok |-> TRUE, fs |-> tree_put(fs, real, LinkNode(target)), at |-> real,
              made |-> {real}]

\* validate_extract_path: the path under dest_dir, or IntegrityFailure
RECURSIVE push_components(_, _)
push_components(safe_path, components) ==
    IF components = <<>> THEN [ok |-> TRUE, path |-> safe_path]
    ELSE IF Head(components) = ".." THEN [ok |-> FALSE, path |-> <<>>]
    ELSE IF Head(components) = "/" THEN [ok |-> FALSE, path |-> <<>>]
    ELSE IF Head(components) = "." THEN push_components(safe_path, Tail(components))
    ELSE push_components(Append(safe_path, Head(components)), Tail(components))

validate_extract_path(entry_path, dest_dir) ==
    LET r == push_components(dest_dir, entry_path)
    IN  IF ~r.ok THEN r
        ELSE IF ~path_starts_with(r.path, dest_dir) THEN [ok |-> FALSE, path |-> <<>>]
        ELSE r

\* what one entry did: the tree, the real paths made or written, the link made
Extracted(fs, made, links) == [err |-> "", fs |-> fs, made |-> made, links |-> links]
ExtractFailed(fs, err, made) == [err |-> err, fs |-> fs, made |-> made, links |-> {}]

\* extract_regular_file
extract_regular_file(fs, dest_path) ==
    LET d == create_dir_all(fs, path_parent(dest_path))
        f == file_create(d.fs, dest_path)
    IN  IF ~d.ok THEN ExtractFailed(fs, "Io", {})
        ELSE IF ~f.ok THEN ExtractFailed(d.fs, "Io", d.made)
        ELSE Extracted(f.fs, d.made \cup f.made, {})

\* dest_path.parent().unwrap_or(dest_dir).join(target_path): the target is
\* appended, its ".." components stay in the path
join_target(parent, target_path) == parent \o target_path

\* extract_symlink
extract_symlink(fs, link_name, dest_path, dest_dir) ==
    IF link_name = None THEN Extracted(fs, {}, {})
    ELSE LET target_path == Unwrap(link_name)
             resolved_target == join_target(path_parent(dest_path), target_path)
             d == create_dir_all(fs, path_parent(dest_path))
             l == symlink(d.fs, target_path, dest_path)
         IN  IF is_absolute(target_path) THEN ExtractFailed(fs, "IntegrityFailure", {})
             ELSE IF ~path_starts_with(resolved_target, dest_dir)
                  THEN ExtractFailed(fs, "IntegrityFailure", {})
             ELSE IF ~d.ok THEN ExtractFailed(fs, "Io", {})
             ELSE IF ~l.ok THEN ExtractFailed(d.fs, "Io", d.made)
             ELSE Extracted(l.fs, d.made \cup l.made,
                            {[at |-> l.at, path |-> dest_path, target |-> target_path]})

\* the body of the loop over archive.entries()
extract_entry(fs, entry, dest_dir) ==
    LET safe_path == validate_extract_path(entry.path, dest_dir)
        d == create_dir_all(fs, safe_path.path)
    IN  IF ~safe_path.ok THEN ExtractFailed(fs, "IntegrityFailure", {})
        ELSE IF entry.type = "Regular" THEN extract_regular_file(fs, safe_path.path)
        ELSE IF entry.type = "Directory"
             THEN IF d.ok THEN Extracted(d.fs, d.made, {}) ELSE ExtractFailed(fs, "Io", {})
        ELSE IF entry.type \in {"Symlink", "Link"}
             THEN extract_symlink(fs, entry.link_name, safe_path.path, dest_dir)
        ELSE Extracted(fs, {}, {})

\* the entries an archive is made of
EntryPaths ==
    {<<"a">>, <<"x">>, <<"x", "a">>, <<"a", "..", "..", "e">>, <<"/", "e">>, <<"..", "e">>}

LinkNames == {None, Some(<<"a">>), Some(<<"..">>), Some(<<"..", "..", "e">>), Some(<<"/", "e">>)}

Entries ==
    {[path |-> path, type |-> type, link_name |-> None] :
        path \in EntryPaths, type \in {"Regular", "Directory", "Other"}}
    \cup {[path |-> path, type |-> type, link_name |-> link_name] :
        path \in EntryPaths, type \in {"Symlink", "Link"}, link_name \in LinkNames}

\* extract_tarball up to the loop: fs::create_dir_all(dest_dir)
ExtractBegin ==
    /\ tar.status = "idle"
    /\ LET d == create_dir_all(tfs, DestDir)
       IN  /\ tfs' = d.fs
           /\ tar' = [NoTar EXCEPT !.status = IF d.ok THEN "running" ELSE "err",
                                   !.err = IF d.ok THEN "" ELSE "Io",
                                   !.made = d.made]

\* one turn of the loop, on the next entry of the archive
ExtractEntry(entry) ==
    /\ tar.status = "running"
    /\ Len(tar.entries) < MaxEntries
    /\ LET r == extract_entry(tfs, entry, DestDir)
       IN  /\ tfs' = r.fs
           /\ tar' = [tar EXCEPT !.status = IF r.err = "" THEN "running" ELSE "err",
                                 !.err = r.err,
                                 !.entries = Append(@, entry),
                                 !.made = @ \cup r.made,
                                 !.links = @ \cup r.links,
                                 !.before = tfs]

\* the archive has no further entry: Ok(())
ExtractEnd ==
    /\ tar.status = "running"
    /\ tar' = [tar EXCEPT !.status = "ok"]
    /\ UNCHANGED tfs

TarNext ==
    \/ ExtractBegin
    \/ \E entry \in Entries : ExtractEntry(entry)
    \/ ExtractEnd

InitTar == InitCas

SpecTar ==
    /\ InitTar
    /\ [][TarNext /\ UNCHANGED <<casVars, thrVars, resVars, selVars, graphVars, idxVars, metaVars, retryVars, verVars, linkVars>>]_vars

\* the entry the loop worked on last
LastEntry == tar.entries[Len(tar.entries)]

\* the path has a ".." or a root component
Traversing(path) == \E i \in DOMAIN path : path[i] \in {"..", "/"}

\* C31: extraction makes or writes no file, directory or link outside
\* dest_dir, and an entry whose path has a ".." or root component fails with
\* IntegrityFailure
C31_StaysInside ==
    /\ \A real \in tar.made : path_starts_with(real, DestDir)
    /\ (tar.entries # <<>> /\ Traversing(LastEntry.path)) =>
            /\ tar.status = "err"
            /\ tar.err = "IntegrityFailure"
            /\ tfs = tar.before

\* the part of C31 about the entry's own path
C31_TraversalRejected ==
    (tar.entries # <<>> /\ Traversing(LastEntry.path)) =>
        /\ tar.status = "err"
        /\ tar.err = "IntegrityFailure"
        /\ tfs = tar.before

\* the path with its "." and ".." components resolved from base
RECURSIVE resolve_dots(_, _)
resolve_dots(base, components) ==
    IF components = <<>> THEN base
    ELSE IF Head(components) = ".." THEN resolve_dots(path_parent(base), Tail(components))
    ELSE IF Head(components) = "." THEN resolve_dots(base, Tail(components))
    ELSE resolve_dots(Append(base, Head(components)), Tail(components))

\* a link at path with this target is allowed: relative, and inside dest_dir
\* once resolved against the directory of the link
TargetAllowed(path, target) ==
    /\ ~is_absolute(target)
    /\ path_starts_with(resolve_dots(path_parent(path), target), DestDir)

\* C32: a link is created only if its target is relative and resolves inside
\* dest_dir; a link entry with another target fails with IntegrityFailure and
\* no link is created
C32_LinksInside ==
    /\ \A l \in tar.links : TargetAllowed(l.path, l.target)
    /\ (/\ tar.entries # <<>>
        /\ LastEntry.type \in {"Symlink", "Link"}
        /\ LastEntry.link_name # None
        /\ ~Traversing(LastEntry.path)
        /\ ~TargetAllowed(DestDir \o LastEntry.path, Unwrap(LastEntry.link_name))) =>
            /\ tar.status = "err"
            /\ tar.err = "IntegrityFailure"
            /\ tfs = tar.before

\* the part of C32 about absolute targets
C32_AbsoluteRejected ==
    (/\ tar.entries # <<>>
     /\ LastEntry.type \in {"Symlink", "Link"}
     /\ LastEntry.link_name # None
     /\ ~Traversing(LastEntry.path)
     /\ is_absolute(Unwrap(LastEntry.link_name))) =>
        /\ tar.status = "err"
        /\ tar.err = "IntegrityFailure"
        /\ tfs = tar.before

(***************************************************************************)
(* link/linker.rs on a POSIX build.  The filesystem has inodes: a hardlink *)
(* is a second path to the inode of a file, and the bytes belong to the    *)
(* inode.  std::fs and walkdir are not part of the repository; they are    *)
(* modelled by what the operating system does.                             *)
(***************************************************************************)
\* Path::exists: a link is followed
path_exists(fs, path) ==
    /\ path \in DOMAIN fs.tree
    /\ fs.tree[path].kind = "link" => fs.tree[path].target \in DOMAIN fs.tree

\* Path::is_symlink
is_symlink(fs, path) == path \in DOMAIN fs.tree /\ fs.tree[path].kind = "link"

\* the bytes read at a file's path
content_at(fs, path) == fs.data[fs.tree[path].ino]

\* the inode a new file gets
new_ino(fs) == CHOOSE i \in 1..(Cardinality(DOMAIN fs.data) + 1) : i \notin DOMAIN fs.data

\* the filesystem with this tree: an inode without a path is freed
with_tree(fs, tree) ==
    [tree |-> tree,
     data |-> [i \in {tree[p].ino : p \in {q \in DOMAIN tree : tree[q].kind = "file"}} |->
                  fs.data[i]]]

FsFailed(fs) == [ok |-> FALSE, fs |-> fs]
FsDone(fs) == [ok |-> TRUE, fs |-> fs]

\* fs::create_dir_all(path) in the linker's filesystem
mkdir_all(fs, path) ==
    LET prefixes == {SubSeq(path, 1, k) : k \in 1..Len(path)}
    IN  IF \E q \in prefixes : q \in DOMAIN fs.tree /\ fs.tree[q].kind # "dir"
        THEN FsFailed(fs)
        ELSE FsDone([fs EXCEPT !.tree = [p \in (DOMAIN fs.tree) \cup prefixes |->
                                            IF p \in DOMAIN fs.tree THEN fs.tree[p]
                                            ELSE dir_node]])

\* fs::hard_link(source, dest): refused by the filesystem, or when dest exists
hard_link(fs, source, dest, env) ==
    IF env.refuse \/ dest \in DOMAIN fs.tree THEN FsFailed(fs)
    ELSE FsDone([fs EXCEPT !.tree = [p \in (DOMAIN fs.tree) \cup {dest} |->
                                        IF p = dest THEN file_node(fs.tree[source].ino)
                                        ELSE fs.tree[p]]])

\* fs::copy(source, dest): dest is created, or opened and truncated, and the
\* bytes of source are written to it; when dest is a path to the inode of
\* source the file may end up truncated
fs_copy(fs, source, dest, env) ==
    IF env.copy_fails THEN FsFailed(fs)
    ELSE IF dest \notin DOMAIN fs.tree
    THEN FsDone([tree |-> [p \in (DOMAIN fs.tree) \cup {dest} |->
                              IF p = dest THEN file_node(new_ino(fs)) ELSE fs.tree[p]],
                 data |-> [i \in (DOMAIN fs.data) \cup {new_ino(fs)} |->
                              IF i = new_ino(fs) THEN content_at(fs, source) ELSE fs.data[i]]])
    ELSE IF fs.tree[dest].kind # "file" THEN FsFailed(fs)
    ELSE IF fs.tree[dest].ino = fs.tree[source].ino
    THEN FsDone([fs EXCEPT !.data[fs.tree[dest].ino] = IF env.truncates THEN <<>> ELSE @])
    ELSE FsDone([fs EXCEPT !.data[fs.tree[dest].ino] = content_at(fs, source)])

\* the entries WalkDir yields: a directory before what it holds
RECURSIVE walk_order(_)
walk_order(paths) ==
    IF paths = {} THEN <<>>
    ELSE LET p == CHOOSE q \in paths : \A r \in paths : Len(q) <= Len(r)
         IN  <<p>> \o walk_order(paths \ {p})

WalkDir(fs, dir) == walk_order({p \in DOMAIN fs.tree : path_starts_with(p, dir)})

LinkFailed(fs, result) == [ok |-> FALSE, fs |-> fs, result |-> result]
LinkDone(fs, result) == [ok |-> TRUE, fs |-> fs, result |-> result]

\* Linker::hardlink_recursive: a file entry
link_file(fs, source_path, dest_path, env, result) ==
    LET d == mkdir_all(fs, path_parent(dest_path))
        h == hard_link(d.fs, source_path, dest_path, env)
        c == fs_copy(d.fs, source_path, dest_path, env)
    IN  IF ~d.ok THEN LinkFailed(fs, result)
        ELSE IF h.ok THEN LinkDone(h.fs, [result EXCEPT !.hardlinks_created = @ + 1])
        ELSE IF c.ok THEN LinkDone(c.fs, [result EXCEPT !.files_copied = @ + 1])
        ELSE LinkFailed(d.fs, result)

\* Linker::hardlink_recursive: a directory entry
link_dir(fs, dest_path, result) ==
    LET d == mkdir_all(fs, dest_path)
    IN  IF ~d.ok THEN LinkFailed(fs, result)
        ELSE LinkDone(d.fs, [result EXCEPT !.directories_created = @ + 1])

\* Linker::hardlink_recursive: the loop over WalkDir::new(source_dir)
RECURSIVE link_entries(_, _, _, _, _, _)
link_entries(fs, entries, source_dir, dest_dir, env, result) ==
    IF entries = <<>> THEN LinkDone(fs, result)
    ELSE LET source_path == Head(entries)
             relative_path == SubSeq(source_path, Len(source_dir) + 1, Len(source_path))
             dest_path == dest_dir \o relative_path
             step == IF relative_path = <<>> THEN LinkDone(fs, result)
                     ELSE IF fs.tree[source_path].kind = "dir"
                          THEN link_dir(fs, dest_path, result)
                     ELSE IF fs.tree[source_path].kind = "file"
                          THEN link_file(fs, source_path, dest_path, env, result)
                     ELSE LinkDone(fs, result)
         IN  IF ~step.ok THEN step
             ELSE link_entries(step.fs, Tail(entries), source_dir, dest_dir, env, step.result)

\* Linker::hardlink_recursive
hardlink_recursive(fs, source_dir, dest_dir, env) ==
    LET d == mkdir_all(fs, dest_dir)
    IN  IF ~d.ok THEN LinkFailed(fs, LinkResult_default)
        ELSE IF source_dir \notin DOMAIN d.fs.tree THEN LinkFailed(d.fs, LinkResult_default)
        ELSE link_entries(d.fs, WalkDir(d.fs, source_dir), source_dir, dest_dir, env,
                          LinkResult_default)

\* fs::remove_file
remove_file(fs, path) ==
    IF path \notin DOMAIN fs.tree \/ fs.tree[path].kind = "dir" THEN FsFailed(fs)
    ELSE FsDone(with_tree(fs, [p \in (DOMAIN fs.tree) \ {path} |-> fs.tree[p]]))

\* Linker::create_bin_symlink
create_bin_symlink(fs, target, link) ==
    LET r == IF path_exists(fs, link) \/ is_symlink(fs, link) THEN remove_file(fs, link)
             ELSE FsDone(fs)
    IN  IF ~r.ok THEN FsFailed(fs)
        ELSE FsDone([r.fs EXCEPT !.tree = [p \in (DOMAIN r.fs.tree) \cup {link} |->
                                              IF p = link THEN link_node(target)
                                              ELSE r.fs.tree[p]]])

\* a package of create_node_modules: name is the path "name" or "@org/name"
PackageInfo(name, source_path, bin_entries) ==
    [name |-> name, source_path |-> source_path, bin_entries |-> bin_entries]

\* package.name.starts_with('@')
is_scoped(name) == Len(name) > 1

\* Linker::create_node_modules: the loop over package.bin_entries
RECURSIVE link_bins(_, _, _, _, _, _)
link_bins(fs, names, package, package_dir, bin_dir, result) ==
    IF names = {} THEN LinkDone(fs, result)
    ELSE LET bin_name == CHOOSE n \in names : TRUE
             bin_target == package_dir \o package.bin_entries[bin_name]
             bin_link == Append(bin_dir, bin_name)
             c == create_bin_symlink(fs, bin_target, bin_link)
         IN  IF ~path_exists(fs, bin_target)
             THEN link_bins(fs, names \ {bin_name}, package, package_dir, bin_dir, result)
             ELSE IF ~c.ok THEN LinkFailed(fs, result)
             ELSE link_bins(c.fs, names \ {bin_name}, package, package_dir, bin_dir,
                            [result EXCEPT !.bin_links_created = @ + 1])

\* Linker::create_node_modules: one package
link_package(fs, package, node_modules_dir, env, result) ==
    LET package_dir == node_modules_dir \o package.name
        s == IF is_scoped(package.name) THEN mkdir_all(fs, path_parent(package_dir))
             ELSE FsDone(fs)
        l == hardlink_recursive(s.fs, package.source_path, package_dir, env)
        linked == [result EXCEPT !.packages_linked = @ + 1,
                                 !.hardlinks_created = @ + l.result.hardlinks_created,
                                 !.files_copied = @ + l.result.files_copied]
    IN  IF ~s.ok THEN LinkFailed(fs, result)
        ELSE IF ~l.ok THEN LinkFailed(l.fs, result)
        ELSE link_bins(l.fs, DOMAIN package.bin_entries, package, package_dir,
                       Append(node_modules_dir, ".bin"), linked)

\* Linker::create_node_modules: the loop over the packages
RECURSIVE link_packages(_, _, _, _, _)
link_packages(fs, packages, node_modules_dir, env, result) ==
    IF packages = <<>> THEN LinkDone(fs, result)
    ELSE LET step == link_package(fs, Head(packages), node_modules_dir, env, result)
         IN  IF ~step.ok THEN step
             ELSE link_packages(step.fs, Tail(packages), node_modules_dir, env, step.result)

\* Linker::create_node_modules
create_node_modules(fs, packages, node_modules_dir, env) ==
    LET d == mkdir_all(fs, node_modules_dir)
        b == mkdir_all(d.fs, Append(node_modules_dir, ".bin"))
    IN  IF ~d.ok THEN LinkFailed(fs, NodeModulesResult_default)
        ELSE IF ~b.ok THEN LinkFailed(d.fs, NodeModulesResult_default)
        ELSE link_packages(b.fs, packages, node_modules_dir, env, NodeModulesResult_default)

\* mutant: the bytes of the removed files are destroyed with them
remove_dir_all_shred(fs, dir) ==
    LET gone == {p \in DOMAIN fs.tree : path_starts_with(p, dir)}
        inodes == {fs.tree[p].ino : p \in {q \in gone : fs.tree[q].kind = "file"}}
        shredded == [fs EXCEPT !.data = [i \in DOMAIN fs.data |->
                                            IF i \in inodes THEN <<>> ELSE fs.data[i]]]
    IN  with_tree(shredded, [p \in (DOMAIN fs.tree) \ gone |-> fs.tree[p]])

\* fs::remove_dir_all(dir): every path under dir is unlinked, links are not followed
remove_dir_all(fs, dir) ==
    with_tree(fs, [p \in {q \in DOMAIN fs.tree : ~path_starts_with(q, dir)} |-> fs.tree[p]])

\* Linker::cleanup_node_modules
cleanup_node_modules(fs, node_modules_dir) ==
    LET under == {p \in DOMAIN fs.tree : path_starts_with(p, node_modules_dir)}
    IN  IF ~path_exists(fs, node_modules_dir) THEN LinkDone(fs, CleanupResult_default)
        ELSE LinkDone(remove_dir_all(fs, node_modules_dir),
                      [files_removed |-> Cardinality({p \in under : fs.tree[p].kind = "file"}),
                       directories_removed |->
                            Cardinality({p \in under : fs.tree[p].kind = "dir"})])

\* the behaviours of the filesystem
LinkEnvs == [refuse : BOOLEAN, copy_fails : BOOLEAN, truncates : BOOLEAN]

\* the extracted packages: p and @o/q declare the shim t on a file they
\* have, r is p with the shim on a file it does not have
PackagePoolLink ==
    {PackageInfo(<<"p">>, SourceRoot \o <<"p">>, "t" :> <<"f">>),
     PackageInfo(<<"@o", "q">>, SourceRoot \o <<"q">>, "t" :> <<"f">>),
     PackageInfo(<<"r">>, SourceRoot \o <<"p">>, "u" :> <<"x">>)}

\* create_node_modules is called with up to MaxPackages packages
MaxPackages == 2

\* the Linker is called up to MaxCalls times
MaxCalls == 2

PackageLists == SeqsUpTo(PackagePoolLink, MaxPackages)

HardlinkRecursive(source_dir, dest_dir, env) ==
    LET r == hardlink_recursive(lfs, source_dir, dest_dir, env)
    IN  /\ lcalls < MaxCalls
        /\ lcalls' = lcalls + 1
        /\ lfs' = r.fs
        /\ lret' = [NoLret EXCEPT !.op = "hardlink_recursive", !.ok = r.ok,
                                  !.source = source_dir, !.dest = dest_dir, !.env = env,
                                  !.link = r.result, !.before = lfs]

CreateNodeModules(packages, env) ==
    LET r == create_node_modules(lfs, packages, NodeModules, env)
    IN  /\ lcalls < MaxCalls
        /\ lcalls' = lcalls + 1
        /\ lfs' = r.fs
        /\ lret' = [NoLret EXCEPT !.op = "create_node_modules", !.ok = r.ok,
                                  !.dest = NodeModules, !.packages = packages, !.env = env,
                                  !.modules = r.result, !.before = lfs]

CleanupNodeModules(node_modules_dir) ==
    LET r == cleanup_node_modules(lfs, node_modules_dir)
    IN  /\ lcalls < MaxCalls
        /\ lcalls' = lcalls + 1
        /\ lfs' = r.fs
        /\ lret' = [NoLret EXCEPT !.op = "cleanup_node_modules", !.ok = r.ok,
                                  !.dest = node_modules_dir, !.cleanup = r.result,
                                  !.before = lfs]

LinkNext ==
    \/ \E name \in {"p", "q"}, env \in LinkEnvs :
            HardlinkRecursive(Append(SourceRoot, name), NodeModules \o <<"p">>, env)
    \/ \E packages \in PackageLists, env \in LinkEnvs : CreateNodeModules(packages, env)
    \/ \E node_modules_dir \in {NodeModules, <<"m">>} : CleanupNodeModules(node_modules_dir)

InitLink == InitCas

SpecLink ==
    /\ InitLink
    /\ [][LinkNext /\ UNCHANGED <<casVars, thrVars, resVars, selVars, graphVars, idxVars, metaVars, retryVars, verVars, tarVars>>]_vars

\* the regular files under a directory
FilesUnder(fs, dir) ==
    {p \in DOMAIN fs.tree : path_starts_with(p, dir) /\ fs.tree[p].kind = "file"}

\* a path under a directory, relative to it
RelativeTo(path, dir) == SubSeq(path, Len(dir) + 1, Len(path))

\* the file is at this path with these bytes
HasContent(fs, path, content) ==
    /\ path \in DOMAIN fs.tree
    /\ fs.tree[path].kind = "file"
    /\ content_at(fs, path) = content

\* every file of source is under dest at the same relative path with the
\* bytes the source file had before the call
Mirrored ==
    \A p \in FilesUnder(lret.before, lret.source) :
        HasContent(lfs, lret.dest \o RelativeTo(p, lret.source), content_at(lret.before, p))

\* C33: a successful hardlink_recursive(source, dest) leaves every regular
\* file of source under dest at the same relative path with identical
\* content, hardlinks_created + files_copied is the number of regular files
\* of source, and when the hardlink is refused and the copy fails the call
\* fails
C33_Mirror ==
    lret.op = "hardlink_recursive" =>
        /\ lret.ok =>
            /\ Mirrored
            /\ lret.link.hardlinks_created + lret.link.files_copied
                   = Cardinality(FilesUnder(lret.before, lret.source))
        /\ (lret.env.refuse /\ lret.env.copy_fails) => ~lret.ok

\* no file of source is under dest before the call
FreshDest ==
    \A p \in FilesUnder(lret.before, lret.source) :
        lret.dest \o RelativeTo(p, lret.source) \notin DOMAIN lret.before.tree

\* C33 on a destination that holds none of the files: the mirror is exact
C33_MirrorFresh ==
    (lret.op = "hardlink_recursive" /\ FreshDest) =>
        /\ lret.ok =>
            /\ Mirrored
            /\ lret.link.hardlinks_created + lret.link.files_copied
                   = Cardinality(FilesUnder(lret.before, lret.source))
        /\ (lret.env.refuse /\ lret.env.copy_fails) => ~lret.ok

\* a fresh destination was mirrored by copies after refused hardlinks
C33_CopiedFresh ==
    /\ lret.op = "hardlink_recursive"
    /\ FreshDest
    /\ lret.ok
    /\ lret.link.files_copied = 2

\* the bin entries of a list of packages, as <<index, shim_name>>
BinEntries(packages) ==
    {<<i, n>> \in (1..Len(packages)) \X {"t", "u"} : n \in DOMAIN packages[i].bin_entries}

\* <root>/.bin/<shim_name> is a link to the target of bin entry e
ShimFor(packages, e) ==
    LET link == lret.dest \o <<".bin", e[2]>>
    IN  /\ is_symlink(lfs, link)
        /\ lfs.tree[link].target
               = lret.dest \o packages[e[1]].name \o packages[e[1]].bin_entries[e[2]]

\* bin entry e is the last of its shim name in the input sequence
LastOfName(packages, e) ==
    \A o \in BinEntries(packages) : o[2] = e[2] => o[1] <= e[1]

\* C34: after a successful create_node_modules every bin entry has its shim
\* at <root>/.bin/<shim_name>, which refers to the target in the last package
\* that declares the name; bin_links_created counts the bin entries and
\* packages_linked the packages
C34_Shims ==
    (lret.op = "create_node_modules" /\ lret.ok) =>
        /\ \A e \in BinEntries(lret.packages) :
               LastOfName(lret.packages, e) => ShimFor(lret.packages, e)
        /\ lret.modules.bin_links_created = Cardinality(BinEntries(lret.packages))
        /\ lret.modules.packages_linked = Len(lret.packages)

\* the target of bin entry e exists after the call
TargetExists(packages, e) ==
    path_exists(lfs, lret.dest \o packages[e[1]].name \o packages[e[1]].bin_entries[e[2]])

\* C34 for the bin entries whose target file exists: they have their shim,
\* the later package wins, and the counters count them
C34_ShimsOfTargets ==
    (lret.op = "create_node_modules" /\ lret.ok) =>
        /\ \A e \in {b \in BinEntries(lret.packages) : TargetExists(lret.packages, b)} :
               LastOfName(lret.packages, e) => ShimFor(lret.packages, e)
        /\ lret.modules.bin_links_created
               = Cardinality({b \in BinEntries(lret.packages) : TargetExists(lret.packages, b)})
        /\ lret.modules.packages_linked = Len(lret.packages)

\* two packages declared the shim t and the call succeeded
C34_SameShimTwice ==
    /\ lret.op = "create_node_modules"
    /\ lret.ok
    /\ Len(lret.packages) = 2
    /\ lret.packages[1].name # lret.packages[2].name
    /\ \A i \in 1..2 : "t" \in DOMAIN lret.packages[i].bin_entries

\* the files of the CAS and of the packages' source directories
KeptFiles(fs) == FilesUnder(fs, CasRoot) \cup FilesUnder(fs, SourceRoot)

\* CasStore::contains, get and verify of the blob of SampleContents[2]
BlobAnswers(fs) ==
    [contains |-> BlobFile \in DOMAIN fs.tree,
     get |-> IF BlobFile \in DOMAIN fs.tree THEN Some(content_at(fs, BlobFile)) ELSE None,
     verify |-> /\ BlobFile \in DOMAIN fs.tree
                /\ compute_hash(content_at(fs, BlobFile)) = compute_hash(SampleContents[2])]

\* C35: cleanup_node_modules on a path that does not exist returns zero
\* counts and changes nothing; on an existing tree nothing of the tree is
\* left; in both cases every file of the CAS (blobs, index) and of the source
\* directories is still there with the same content, and contains, get and
\* verify answer as before
C35_CleanupKeepsCas ==
    lret.op = "cleanup_node_modules" =>
        /\ lret.ok
        /\ ~path_exists(lret.before, lret.dest) =>
               /\ lret.cleanup = CleanupResult_default
               /\ lfs = lret.before
        /\ path_exists(lret.before, lret.dest) =>
               \A p \in DOMAIN lfs.tree : ~path_starts_with(p, lret.dest)
        /\ \A p \in KeptFiles(lret.before) :
               HasContent(lfs, p, content_at(lret.before, p))
        /\ BlobAnswers(lfs) = BlobAnswers(lret.before)

\* a tree that held a hardlink of the CAS blob was removed
C35_Witness ==
    /\ lret.op = "cleanup_node_modules"
    /\ path_exists(lret.before, lret.dest)
    /\ \E p \in FilesUnder(lret.before, lret.dest) :
           lret.before.tree[p].ino = lret.before.tree[BlobFile].ino
    /\ lret.cleanup.files_removed = 2

\* C40: hardlink_recursive and create_node_modules leave every file under
\* the source directories, and every file the destination held before the
\* call, with the content it had
C40_SourcesKept ==
    lret.op \in {"hardlink_recursive", "create_node_modules"} =>
        /\ \A p \in FilesUnder(lret.before, SourceRoot) :
               HasContent(lfs, p, content_at(lret.before, p))
        /\ \A p \in FilesUnder(lret.before, lret.dest) :
               HasContent(lfs, p, content_at(lret.before, p))

\* C40 for hardlink_recursive into a destination that holds none of the
\* files: the sources keep their content
C40_FreshKeeps ==
    (lret.op = "hardlink_recursive" /\ FreshDest) =>
        \A p \in FilesUnder(lret.before, SourceRoot) :
            HasContent(lfs, p, content_at(lret.before, p))

\* the same packages were materialized a second time
C40_SecondRun ==
    /\ lcalls = 2
    /\ lret.op = "create_node_modules"
    /\ lret.ok
    /\ lret.packages # <<>>
    /\ \A i \in 1..Len(lret.packages) :
           NodeModules \o lret.packages[i].name \in DOMAIN lret.before.tree

====
